---- MODULE Spec2Model ----
(***************************************************************************)
(* Watchtower: the Cloud Foundry resource cache (resource_cache.go) and    *)
(* the drift detector that refreshes it and validates it against the       *)
(* configured allow list.                                                  *)
(*                                                                         *)
(* Text that the program splits or concatenates (route strings, hosts,     *)
(* domain names) is a sequence of tokens: a token is either the separator  *)
(* "." or a dot-free label.  The Go string "web.apps.example" is           *)
(* <<"web", ".", "apps", ".", "example">> and "" is <<>>.  GUIDs and app   *)
(* and space names are never split and stay atomic strings.                *)
(***************************************************************************)
EXTENDS Integers, Sequences, FiniteSets, TLC

VARIABLES
    cache,      \* CFResourceCache: the six sub-caches
    last,       \* the last cache method called, its arguments and its result
    config,     \* Detector.config, static once loaded
    platform,   \* what Cloud Foundry holds: the list a successful list call returns
    metrics,    \* the exported counters and gauges
    pc,         \* where NewDetector ("main") and Detector.start ("loop") are
    rtask,      \* per caller, the six refresh goroutines of its Refresh call
    vtask,      \* per caller, the validation goroutines of its Validate call
    tick,       \* a tick is waiting in the ticker's channel (capacity 1)
    iter,       \* loop iterations started
    now,        \* time.Now(), in seconds since the process started
    clientCreatedAt  \* when the API client in use was created, on the same clock

vars == <<cache, last, config, platform, metrics, pc, rtask, vtask, tick, iter,
          now, clientCreatedAt>>

\* Everything but the cache and the record of the last cache call.
detectorVars == <<config, platform, metrics, pc, rtask, vtask, tick, iter,
                  now, clientCreatedAt>>

----------------------------------------------------------------------------
(* Go values                                                               *)

Dot == "."

\* The zero values Go returns for a key that is missing from a map.
ZeroApp == [GUID |-> "", Name |-> "", SSHEnabled |-> FALSE]

ZeroRoute == [Guid |-> "", Host |-> <<>>, DomainGuid |-> ""]

ZeroDomain == [Guid |-> "", Name |-> <<>>]

\* A nil or freshly made map.
EmptyMap == [k \in {} |-> k]

\* v, ok := m[k]
MapHas(m, k) == k \in DOMAIN m

MapGet(m, k, zero) == IF k \in DOMAIN m THEN m[k] ELSE zero

\* m[k] = v
MapPut(m, k, v) == [x \in (DOMAIN m) \cup {k} |-> IF x = k THEN v ELSE m[x]]

\* for _, elem := range list { m[elem.<field>] = elem }, from element i on.
RECURSIVE FillMap(_, _, _, _)
FillMap(m, list, field, i) ==
    IF i > Len(list) THEN m
    ELSE FillMap(MapPut(m, list[i][field], list[i]), list, field, i + 1)

----------------------------------------------------------------------------
(* The sub-caches as NewCFResourceCache constructs them (all zero).        *)

NewAppCache == [Valid |-> FALSE, apps |-> <<>>, guidMap |-> EmptyMap, nameMap |-> EmptyMap]

NewRouteCache == [Valid |-> FALSE, routes |-> <<>>, guidMap |-> EmptyMap]

NewRouteMappingCache == [Valid |-> FALSE, routeMappings |-> <<>>, guidMap |-> EmptyMap]

NewDomainCache == [Valid |-> FALSE, domains |-> <<>>, guidMap |-> EmptyMap, nameMap |-> EmptyMap]

NewSharedDomainCache == [Valid |-> FALSE, domains |-> <<>>, guidMap |-> EmptyMap, nameMap |-> EmptyMap]

NewSpaceCache == [Valid |-> FALSE, spaces |-> <<>>, guidMap |-> EmptyMap, nameMap |-> EmptyMap]

NewCache ==
    [Apps |-> NewAppCache, Routes |-> NewRouteCache,
     RouteMappings |-> NewRouteMappingCache, Domains |-> NewDomainCache,
     SharedDomains |-> NewSharedDomainCache, Spaces |-> NewSpaceCache]

Collections == {"Apps", "Routes", "RouteMappings", "Domains", "SharedDomains", "Spaces"}

----------------------------------------------------------------------------
(* <X>Cache.refresh: `c` is the sub-cache, `err` says whether the list     *)
(* call failed and `resourceList` is what it returned otherwise.           *)

AppCacheRefreshFailsClearing(c, err, resourceList) ==
    IF err THEN NewAppCache
    ELSE [Valid |-> TRUE, apps |-> resourceList,
          guidMap |-> FillMap(EmptyMap, resourceList, "GUID", 1),
          nameMap |-> FillMap(EmptyMap, resourceList, "Name", 1)]

\* A refresh that adds the fetched apps to the indices it has.
AppCacheRefreshPatching(c, err, resourceList) ==
    IF err THEN [c EXCEPT !.Valid = FALSE]
    ELSE [Valid |-> TRUE, apps |-> resourceList,
          guidMap |-> FillMap(c.guidMap, resourceList, "GUID", 1),
          nameMap |-> FillMap(c.nameMap, resourceList, "Name", 1)]

AppCacheRefresh(c, err, resourceList) ==
    IF err THEN [c EXCEPT !.Valid = FALSE]
    ELSE [Valid |-> TRUE, apps |-> resourceList,
          guidMap |-> FillMap(EmptyMap, resourceList, "GUID", 1),
          nameMap |-> FillMap(EmptyMap, resourceList, "Name", 1)]

RouteCacheRefresh(c, err, resourceList) ==
    IF err THEN [c EXCEPT !.Valid = FALSE]
    ELSE [Valid |-> TRUE, routes |-> resourceList,
          guidMap |-> FillMap(EmptyMap, resourceList, "Guid", 1)]

RouteMappingCacheRefresh(c, err, resourceList) ==
    IF err THEN [c EXCEPT !.Valid = FALSE]
    ELSE [Valid |-> TRUE, routeMappings |-> resourceList,
          guidMap |-> FillMap(EmptyMap, resourceList, "Guid", 1)]

SharedDomainCacheRefresh(c, err, resourceList) ==
    IF err THEN [c EXCEPT !.Valid = FALSE]
    ELSE [Valid |-> TRUE, domains |-> resourceList,
          guidMap |-> FillMap(EmptyMap, resourceList, "Guid", 1),
          nameMap |-> FillMap(EmptyMap, resourceList, "Name", 1)]

DomainCacheRefresh(c, err, resourceList) ==
    IF err THEN [c EXCEPT !.Valid = FALSE]
    ELSE [Valid |-> TRUE, domains |-> resourceList,
          guidMap |-> FillMap(EmptyMap, resourceList, "Guid", 1),
          nameMap |-> FillMap(EmptyMap, resourceList, "Name", 1)]

SpaceCacheRefresh(c, err, resourceList) ==
    IF err THEN [c EXCEPT !.Valid = FALSE]
    ELSE [Valid |-> TRUE, spaces |-> resourceList,
          guidMap |-> FillMap(EmptyMap, resourceList, "Guid", 1),
          nameMap |-> FillMap(EmptyMap, resourceList, "Name", 1)]

\* The refresh method of sub-cache `coll`.
SubCacheRefresh(coll, c, err, resourceList) ==
    CASE coll = "Apps" -> AppCacheRefresh(c, err, resourceList)
      [] coll = "Routes" -> RouteCacheRefresh(c, err, resourceList)
      [] coll = "RouteMappings" -> RouteMappingCacheRefresh(c, err, resourceList)
      [] coll = "Domains" -> DomainCacheRefresh(c, err, resourceList)
      [] coll = "SharedDomains" -> SharedDomainCacheRefresh(c, err, resourceList)
      [] coll = "Spaces" -> SpaceCacheRefresh(c, err, resourceList)

\* The items slice of sub-cache `coll`.
Items(coll, c) ==
    CASE coll = "Apps" -> c.apps
      [] coll = "Routes" -> c.routes
      [] coll = "RouteMappings" -> c.routeMappings
      [] coll = "Domains" -> c.domains
      [] coll = "SharedDomains" -> c.domains
      [] coll = "Spaces" -> c.spaces

----------------------------------------------------------------------------
(* CFResourceCache lookups                                                 *)

isValidIgnoresSpaces(c) ==
    c.Apps.Valid /\ c.Routes.Valid /\ c.RouteMappings.Valid /\
    c.Domains.Valid /\ c.SharedDomains.Valid

isValid(c) ==
    c.Apps.Valid /\ c.Routes.Valid /\ c.RouteMappings.Valid /\
    c.Domains.Valid /\ c.SharedDomains.Valid /\ c.Spaces.Valid

\* The loop of findRouteByURL from route i on.  A domain GUID that is
\* missing from a map yields the zero Domain, whose Name is "".
RECURSIVE findRouteByURLFrom(_, _, _, _)
findRouteByURLFrom(c, host, domain, i) ==
    IF i > Len(c.Routes.routes) THEN [route |-> ZeroRoute, found |-> FALSE]
    ELSE LET route == c.Routes.routes[i]
             cfSharedDomain == MapGet(c.SharedDomains.guidMap, route.DomainGuid, ZeroDomain)
             cfPrivateDomain == MapGet(c.Domains.guidMap, route.DomainGuid, ZeroDomain)
         IN  IF route.Host = host /\
                (cfSharedDomain.Name = domain \/ cfPrivateDomain.Name = domain)
             THEN [route |-> route, found |-> TRUE]
             ELSE findRouteByURLFrom(c, host, domain, i + 1)

findRouteByURL(c, host, domain) == findRouteByURLFrom(c, host, domain, 1)

findDomainNameByGUIDPrivateFirst(c, guid) ==
    IF MapHas(c.Domains.guidMap, guid)
    THEN [name |-> c.Domains.guidMap[guid].Name, found |-> TRUE]
    ELSE IF MapHas(c.SharedDomains.guidMap, guid)
         THEN [name |-> c.SharedDomains.guidMap[guid].Name, found |-> TRUE]
         ELSE [name |-> <<>>, found |-> FALSE]

findDomainNameByGUID(c, guid) ==
    IF MapHas(c.SharedDomains.guidMap, guid)
    THEN [name |-> c.SharedDomains.guidMap[guid].Name, found |-> TRUE]
    ELSE IF MapHas(c.Domains.guidMap, guid)
         THEN [name |-> c.Domains.guidMap[guid].Name, found |-> TRUE]
         ELSE [name |-> <<>>, found |-> FALSE]

\* errors.New("<link> with GUID <guid> not found in cache")
NotFound(link, guid) == [link |-> link, guid |-> guid]

NoError == [link |-> "nil", guid |-> ""]

MappingFailure(link, guid) ==
    [app |-> ZeroApp, route |-> ZeroRoute, domainName |-> <<>>, err |-> NotFound(link, guid)]

getMappingResourcesAppBeforeDomain(c, mappingGUID) ==
    IF ~MapHas(c.RouteMappings.guidMap, mappingGUID)
    THEN MappingFailure("RouteMapping", mappingGUID)
    ELSE LET routeMapping == c.RouteMappings.guidMap[mappingGUID] IN
         IF ~MapHas(c.Routes.guidMap, routeMapping.RouteGUID)
         THEN MappingFailure("Route", routeMapping.RouteGUID)
         ELSE LET route == c.Routes.guidMap[routeMapping.RouteGUID]
                  domain == findDomainNameByGUID(c, route.DomainGuid)
              IN  IF ~MapHas(c.Apps.guidMap, routeMapping.AppGUID)
                  THEN MappingFailure("App", routeMapping.AppGUID)
                  ELSE IF ~domain.found
                       THEN MappingFailure("Domain", route.DomainGuid)
                       ELSE [app |-> c.Apps.guidMap[routeMapping.AppGUID], route |-> route,
                             domainName |-> domain.name, err |-> NoError]

getMappingResources(c, mappingGUID) ==
    IF ~MapHas(c.RouteMappings.guidMap, mappingGUID)
    THEN MappingFailure("RouteMapping", mappingGUID)
    ELSE LET routeMapping == c.RouteMappings.guidMap[mappingGUID] IN
         IF ~MapHas(c.Routes.guidMap, routeMapping.RouteGUID)
         THEN MappingFailure("Route", routeMapping.RouteGUID)
         ELSE LET route == c.Routes.guidMap[routeMapping.RouteGUID]
                  domain == findDomainNameByGUID(c, route.DomainGuid)
              IN  IF ~domain.found
                  THEN MappingFailure("Domain", route.DomainGuid)
                  ELSE IF ~MapHas(c.Apps.guidMap, routeMapping.AppGUID)
                       THEN MappingFailure("App", routeMapping.AppGUID)
                       ELSE [app |-> c.Apps.guidMap[routeMapping.AppGUID], route |-> route,
                             domainName |-> domain.name, err |-> NoError]

----------------------------------------------------------------------------
(* What the Cloud Controller list calls can return.  Each list call either *)
(* fails or returns one of the lists below; the lists are chosen so that a *)
(* route's domain GUID can be in the shared collection only (d1), in both  *)
(* collections under different names (d2), in the private collection only  *)
(* (d3 with the second private list) or in neither (d3 otherwise), and so  *)
(* that a route mapping can miss its route (m3), its domain and its app    *)
(* (m4), or only its app (m2 with the first app list).  An app carries the *)
(* SSH status the platform reports for it.                                 *)

Web == <<"web">>

Api == <<"api">>

AppsExample == <<"apps", Dot, "example">>

SharedExample == <<"shared", Dot, "example">>

CorpExample == <<"corp", Dot, "example">>

DevExample == <<"dev", Dot, "example">>

ListV3AppsByQuery ==
    { <<[GUID |-> "a1", Name |-> "web", SSHEnabled |-> TRUE]>>,
      <<[GUID |-> "a1", Name |-> "web", SSHEnabled |-> TRUE],
        [GUID |-> "a2", Name |-> "api", SSHEnabled |-> FALSE]>> }

ListRoutes ==
    { <<[Guid |-> "r1", Host |-> Web, DomainGuid |-> "d1"],
        [Guid |-> "r2", Host |-> Web, DomainGuid |-> "d2"],
        [Guid |-> "r3", Host |-> Api, DomainGuid |-> "d3"]>>,
      <<[Guid |-> "r3", Host |-> Api, DomainGuid |-> "d3"],
        [Guid |-> "r4", Host |-> Api, DomainGuid |-> "d1"]>> }

ListRouteMappings ==
    { <<[Guid |-> "m1", RouteGUID |-> "r1", AppGUID |-> "a1"],
        [Guid |-> "m2", RouteGUID |-> "r2", AppGUID |-> "a2"],
        [Guid |-> "m3", RouteGUID |-> "r9", AppGUID |-> "a1"],
        [Guid |-> "m4", RouteGUID |-> "r3", AppGUID |-> "a9"]>>,
      <<[Guid |-> "m1", RouteGUID |-> "r1", AppGUID |-> "a1"]>> }

ListSharedDomains ==
    { <<[Guid |-> "d1", Name |-> AppsExample]>>,
      <<[Guid |-> "d1", Name |-> AppsExample], [Guid |-> "d2", Name |-> SharedExample]>> }

ListDomains ==
    { <<[Guid |-> "d2", Name |-> CorpExample]>>,
      <<[Guid |-> "d2", Name |-> CorpExample], [Guid |-> "d3", Name |-> DevExample]>> }

ListSpacesByQuery ==
    { <<[Guid |-> "s1", Name |-> "dev", AllowSSH |-> TRUE]>>,
      <<[Guid |-> "s1", Name |-> "dev", AllowSSH |-> FALSE],
        [Guid |-> "s2", Name |-> "prod", AllowSSH |-> FALSE]>> }

\* The successful results of the list call behind sub-cache `coll`.
Responses(coll) ==
    CASE coll = "Apps" -> ListV3AppsByQuery
      [] coll = "Routes" -> ListRoutes
      [] coll = "RouteMappings" -> ListRouteMappings
      [] coll = "Domains" -> ListDomains
      [] coll = "SharedDomains" -> ListSharedDomains
      [] coll = "Spaces" -> ListSpacesByQuery

\* What the list call behind sub-cache `coll` returns: an error and no
\* list, or a list and no error.
ListCall(coll) ==
    {[resourceList |-> <<>>, err |-> TRUE]} \cup
    {[resourceList |-> l, err |-> FALSE] : l \in Responses(coll)}

\* The arguments the lookups are called with.  The detector passes
\* RouteEntry.Host() and RouteEntry.Domain() of a configured route; for the
\* configured route "web." the domain is the empty string.
ProbeHosts == {Web, Api, <<"www">>}

ProbeDomains == {AppsExample, SharedExample, CorpExample, DevExample, <<>>}

ProbeDomainGUIDs == {"d1", "d2", "d3", "d4"}

ProbeMappingGUIDs == {"m1", "m2", "m3", "m4", "m9"}

----------------------------------------------------------------------------
(* The config package                                                      *)

\* strings.SplitN(s, ".", cFMaxRouteTokens): at most two pieces, cut at the
\* first separator; a string without separator is the only piece.
LastDot(s) ==
    IF \E i \in 1..Len(s) : s[i] = Dot
    THEN CHOOSE i \in 1..Len(s) : s[i] = Dot /\ \A j \in (i + 1)..Len(s) : s[j] # Dot
    ELSE 0

FirstDot(s) ==
    IF \E i \in 1..Len(s) : s[i] = Dot
    THEN CHOOSE i \in 1..Len(s) : s[i] = Dot /\ \A j \in 1..(i - 1) : s[j] # Dot
    ELSE 0

SplitN(s) ==
    IF FirstDot(s) = 0 THEN <<s>>
    ELSE <<SubSeq(s, 1, FirstDot(s) - 1), SubSeq(s, FirstDot(s) + 1, Len(s))>>

\* RouteEntry.Host and RouteEntry.Domain index the pieces; indexing a piece
\* that does not exist is Go's index-out-of-range panic.
Host(r) == SplitN(r)[1]

Domain(r) == SplitN(r)[2]

\* AppEntry.ContainsRoute
ContainsRoute(a, route) == \E i \in 1..Len(a.Routes) : a.Routes[i] = route

\* time.Second is the unit of time; time.Hour in that unit.
Hour == 3600

minRefreshInterval == 10

\* A configuration file is its three sections; the global section is a map
\* from the keys that the file gives to their values.  A cloud controller
\* URL is text in tokens: <<"https", "://", "api.example">> and what may
\* follow the host: "/", a path segment, "?", a query.
GlobalKeys == {"port", "refresh_interval", "cloud_controller_url"}

MaxUint16 == 65535

\* yaml.UnmarshalStrict into YAMLConfig: a key that YAMLConfig does not
\* have fails, a port that does not fit uint16 fails, and a key that the
\* file does not give leaves the zero value.
UnmarshalStrict(dataSource) ==
    LET g == dataSource.global IN
    IF ~(DOMAIN g \subseteq GlobalKeys) THEN [err |-> TRUE]
    ELSE IF "port" \in DOMAIN g /\ g["port"] > MaxUint16 THEN [err |-> TRUE]
    ELSE [err |-> FALSE,
          GlobalConfig |->
              [HTTPBindPort |-> IF "port" \in DOMAIN g THEN g["port"] ELSE 0,
               RefreshInterval |->
                   IF "refresh_interval" \in DOMAIN g THEN g["refresh_interval"] ELSE 0,
               CloudControllerURL |->
                   IF "cloud_controller_url" \in DOMAIN g
                   THEN g["cloud_controller_url"] ELSE <<>>],
          AppConfig |-> dataSource.apps,
          SpaceConfig |-> dataSource.spaces]

\* The tokens of `u` after the first token `sep`, none if there is no `sep`.
After(u, sep) ==
    IF \E i \in 1..Len(u) : u[i] = sep
    THEN SubSeq(u, 1 + CHOOSE i \in 1..Len(u) :
                          u[i] = sep /\ \A j \in 1..(i - 1) : u[j] # sep, Len(u))
    ELSE <<>>

\* url.ParseRequestURI: the empty string fails; text that starts with "/"
\* is a path with no scheme; otherwise a scheme must come first.  A
\* fragment is never split off.
ParseRequestURI(u) ==
    IF u = <<>> THEN [err |-> TRUE]
    ELSE IF u[1] = "/"
    THEN [err |-> FALSE, Scheme |-> "", Host |-> "", RawQuery |-> After(u, "?"),
          Fragment |-> <<>>, String |-> u]
    ELSE IF Len(u) >= 3 /\ u[2] = "://"
    THEN [err |-> FALSE, Scheme |-> u[1], Host |-> u[3], RawQuery |-> After(u, "?"),
          Fragment |-> <<>>, String |-> u]
    ELSE [err |-> TRUE]

\* Config{}
ZeroConfig ==
    [Data |-> [GlobalConfig |-> [HTTPBindPort |-> 0, RefreshInterval |-> 0,
                                 CloudControllerURL |-> <<>>],
               AppConfig |-> [Enabled |-> FALSE, Apps |-> <<>>],
               SpaceConfig |-> [Enabled |-> FALSE, Spaces |-> <<>>]],
     Apps |-> EmptyMap, Spaces |-> EmptyMap]

Failed(message) == [conf |-> ZeroConfig, err |-> message]

\* A loader that takes any refresh interval.
intervalNeverBelowMinimum(yamlConfig) == FALSE

\* yamlConfig.GlobalConfig.RefreshInterval < minRefreshInterval
intervalBelowMinimum(yamlConfig) ==
    yamlConfig.GlobalConfig.RefreshInterval < minRefreshInterval

\* loadData: parse, validate the global section, normalise the cloud
\* controller URL to scheme and host, and key the two resource lists by
\* name.  It returns the Config and the error.
loadData(dataSource) ==
    LET yamlConfig == UnmarshalStrict(dataSource) IN
    IF yamlConfig.err THEN Failed("yaml")
    ELSE IF yamlConfig.GlobalConfig.HTTPBindPort = 0
    THEN Failed("port 0 is reserved and cannot be used")
    ELSE IF intervalBelowMinimum(yamlConfig)
    THEN Failed("Refresh interval cannot be less than 10s")
    ELSE LET ccURL == ParseRequestURI(yamlConfig.GlobalConfig.CloudControllerURL) IN
         IF ccURL.err THEN Failed("provided cloud controller URL could not be parsed")
         ELSE IF ccURL.Scheme = ""
         THEN Failed("provided cloud controller URL was not an absolute URL")
         ELSE IF ccURL.Scheme # "https"
         THEN Failed("unsupported scheme in cloud controller URL")
         ELSE IF \E i \in 1..Len(ccURL.String) : ccURL.String[i] = ".."
         THEN Failed("suspected directory traversal in cloud controller URL")
         ELSE IF ccURL.Fragment # <<>>
         THEN Failed("fragments unsupported in cloud controller URL")
         ELSE IF ccURL.RawQuery # <<>>
         THEN Failed("queries unsupported in cloud controller URL")
         ELSE [conf |->
                  [Data |-> [GlobalConfig |->
                                 [HTTPBindPort |-> yamlConfig.GlobalConfig.HTTPBindPort,
                                  RefreshInterval |->
                                      yamlConfig.GlobalConfig.RefreshInterval,
                                  CloudControllerURL |->
                                      <<ccURL.Scheme, "://", ccURL.Host>>],
                             AppConfig |-> yamlConfig.AppConfig,
                             SpaceConfig |-> yamlConfig.SpaceConfig],
                   Apps |-> FillMap(EmptyMap, yamlConfig.AppConfig.Apps, "Name", 1),
                   Spaces |-> FillMap(EmptyMap, yamlConfig.SpaceConfig.Spaces, "Name", 1)],
               err |-> "nil"]

\* A configuration file with a valid global section.
File(refreshInterval, appsEnabled, apps, spacesEnabled, spaces) ==
    [global |-> [port |-> 8443, refresh_interval |-> refreshInterval,
                 cloud_controller_url |-> <<"https", "://", "api.example">>],
     apps |-> [Enabled |-> appsEnabled, Apps |-> apps],
     spaces |-> [Enabled |-> spacesEnabled, Spaces |-> spaces]]

\* Two configuration files.  In the first, web is required and batch is
\* optional; in the second, web is optional, api and cron are required and
\* api has no routes.  The first refreshes every nine hours, the second
\* every four.
FileRequiredWeb ==
    File(9 * Hour, TRUE,
         <<[Name |-> "web", Optional |-> FALSE, SSHDisabled |-> FALSE,
            Routes |-> <<Web \o <<Dot>> \o AppsExample>>],
           [Name |-> "batch", Optional |-> TRUE, SSHDisabled |-> TRUE,
            Routes |-> <<<<"batch", Dot>> \o AppsExample>>]>>,
         TRUE,
         <<[Name |-> "dev", AllowSSH |-> FALSE],
           [Name |-> "prod", AllowSSH |-> TRUE]>>)

ConfigRequiredWeb == loadData(FileRequiredWeb).conf

FileOptionalWeb ==
    File(4 * Hour, TRUE,
         <<[Name |-> "web", Optional |-> TRUE, SSHDisabled |-> TRUE,
            Routes |-> <<Web \o <<Dot>> \o CorpExample, Web \o <<Dot>> \o DevExample>>],
           [Name |-> "api", Optional |-> FALSE, SSHDisabled |-> FALSE,
            Routes |-> <<>>],
           [Name |-> "cron", Optional |-> FALSE, SSHDisabled |-> FALSE,
            Routes |-> <<<<"cron", Dot>> \o AppsExample>>]>>,
         TRUE,
         <<[Name |-> "dev", AllowSSH |-> TRUE]>>)

ConfigOptionalWeb == loadData(FileOptionalWeb).conf

\* The first file with the apps section switched off, and with the spaces
\* section switched off.
ConfigSpacesOnly ==
    loadData([FileRequiredWeb EXCEPT !.apps.Enabled = FALSE]).conf

ConfigAppsOnly ==
    loadData([FileRequiredWeb EXCEPT !.spaces.Enabled = FALSE]).conf

Configs == {ConfigRequiredWeb, ConfigOptionalWeb, ConfigSpacesOnly, ConfigAppsOnly}

----------------------------------------------------------------------------
(* The platform the detector watches: for each collection, the list its    *)
(* list call returns when it succeeds.                                     *)

\* Two deployed apps, three routes, four route mappings, one space.
PlatformDeployed ==
    [Apps |-> <<[GUID |-> "a1", Name |-> "web", SSHEnabled |-> TRUE],
                [GUID |-> "a2", Name |-> "api", SSHEnabled |-> FALSE]>>,
     Routes |-> <<[Guid |-> "r1", Host |-> Web, DomainGuid |-> "d1"],
                  [Guid |-> "r2", Host |-> Web, DomainGuid |-> "d2"],
                  [Guid |-> "r3", Host |-> Api, DomainGuid |-> "d3"]>>,
     RouteMappings |-> <<[Guid |-> "m1", RouteGUID |-> "r1", AppGUID |-> "a1"],
                         [Guid |-> "m2", RouteGUID |-> "r2", AppGUID |-> "a2"],
                         [Guid |-> "m3", RouteGUID |-> "r9", AppGUID |-> "a1"],
                         [Guid |-> "m4", RouteGUID |-> "r3", AppGUID |-> "a9"]>>,
     SharedDomains |-> <<[Guid |-> "d1", Name |-> AppsExample],
                         [Guid |-> "d2", Name |-> SharedExample]>>,
     Domains |-> <<[Guid |-> "d2", Name |-> CorpExample]>>,
     Spaces |-> <<[Guid |-> "s1", Name |-> "dev", AllowSSH |-> TRUE],
                  [Guid |-> "s3", Name |-> "sandbox", AllowSSH |-> TRUE]>>]

\* Nothing deployed yet: only the shared domain and two spaces exist.
PlatformBare ==
    [Apps |-> <<>>, Routes |-> <<>>, RouteMappings |-> <<>>,
     SharedDomains |-> <<[Guid |-> "d1", Name |-> AppsExample]>>,
     Domains |-> <<>>,
     Spaces |-> <<[Guid |-> "s1", Name |-> "dev", AllowSSH |-> FALSE],
                  [Guid |-> "s2", Name |-> "prod", AllowSSH |-> FALSE]>>]

Platforms == {PlatformDeployed, PlatformBare}

\* The deployed platform after a change: api is gone, worker is new, a
\* second app named web runs in another space, and a second space named
\* dev exists in another organisation.
PlatformRescaled ==
    [PlatformDeployed EXCEPT
        !.Apps = <<[GUID |-> "a1", Name |-> "web", SSHEnabled |-> TRUE],
                   [GUID |-> "a3", Name |-> "worker", SSHEnabled |-> TRUE],
                   [GUID |-> "a4", Name |-> "web", SSHEnabled |-> FALSE]>>,
        !.Spaces = <<[Guid |-> "s1", Name |-> "dev", AllowSSH |-> FALSE],
                     [Guid |-> "s4", Name |-> "dev", AllowSSH |-> TRUE]>>]

\* The list call behind sub-cache `coll` against platform `p`: an error and
\* no list, or the platform's list and no error.
PlatformListCall(p, coll) ==
    {[resourceList |-> <<>>, err |-> TRUE], [resourceList |-> p[coll], err |-> FALSE]}

----------------------------------------------------------------------------
(* The exported metrics, under the names of their Go variables.            *)

ZeroMetrics ==
    [failedAppChecks |-> 0, successfulAppChecks |-> 0,
     failedSpaceChecks |-> 0, successfulSpaceChecks |-> 0,
     failedRouteChecks |-> 0, successfulRouteChecks |-> 0,
     failedAppSSHChecks |-> 0, successfulAppSSHChecks |-> 0,
     totalUnknownApps |-> 0, totalMissingApps |-> 0,
     totalUnknownRoutes |-> 0, totalMissingRoutes |-> 0,
     totalSpaceSSHViolations |-> 0, totalAppSSHViolations |-> 0]

----------------------------------------------------------------------------
(* The detector's checks.  `m` is the metrics, `c` the cache, `cfg` the    *)
(* config; a check returns the metrics it leaves.                          *)

\* for k := range m: the keys of a map, each once, in some order.
RECURSIVE RangeOf(_)
RangeOf(keys) ==
    IF keys = {} THEN <<>>
    ELSE LET k == CHOOSE k \in keys : TRUE IN <<k>> \o RangeOf(keys \ {k})

Inc(m, counter) == [m EXCEPT ![counter] = @ + 1]

\* app.Name + ":" + host + "." + domainName
RouteText(appName, host, domainName) == <<appName, ":">> \o host \o <<Dot>> \o domainName

\* An inner loop that takes a route for deployed only when a route mapping
\* ties it to an app of the configured name.
RECURSIVE routesNotFoundUnlessMapped(_, _, _)
routesNotFoundUnlessMapped(c, app, i) ==
    IF i > Len(app.Routes) THEN <<>>
    ELSE LET route == app.Routes[i]
             res == findRouteByURL(c, Host(route), Domain(route))
             ok == /\ res.found
                   /\ \E k \in 1..Len(c.RouteMappings.routeMappings) :
                         LET mapping == c.RouteMappings.routeMappings[k] IN
                         /\ mapping.RouteGUID = res.route.Guid
                         /\ MapGet(c.Apps.guidMap, mapping.AppGUID, ZeroApp).Name = app.Name
         IN  (IF ~ok THEN <<RouteText(app.Name, Host(route), Domain(route))>> ELSE <<>>)
             \o routesNotFoundUnlessMapped(c, app, i + 1)

\* The inner loop of getMissingRoutes over app.Routes, from route i on.
RECURSIVE routesNotFound(_, _, _)
routesNotFound(c, app, i) ==
    IF i > Len(app.Routes) THEN <<>>
    ELSE LET route == app.Routes[i]
             ok == findRouteByURL(c, Host(route), Domain(route)).found
         IN  (IF ~ok THEN <<RouteText(app.Name, Host(route), Domain(route))>> ELSE <<>>)
             \o routesNotFound(c, app, i + 1)

\* The body of the outer loop of getMissingRoutes for one configured app.
appMissingRoutesIgnoringOptional(c, app, appExists) == routesNotFound(c, app, 1)

appMissingRoutes(c, app, appExists) ==
    IF (app.Optional /\ appExists) \/ ~app.Optional
    THEN routesNotFound(c, app, 1)
    ELSE <<>>

RECURSIVE getMissingRoutesOver(_, _, _)
getMissingRoutesOver(c, cfg, names) ==
    IF names = <<>> THEN <<>>
    ELSE appMissingRoutes(c, cfg.Apps[Head(names)], MapHas(c.Apps.nameMap, Head(names)))
         \o getMissingRoutesOver(c, cfg, Tail(names))

getMissingRoutes(c, cfg) == getMissingRoutesOver(c, cfg, RangeOf(DOMAIN cfg.Apps))

\* The loop of getUnknownRoutes from route mapping i on.
RECURSIVE getUnknownRoutesFromAnyApp(_, _, _)
getUnknownRoutesFromAnyApp(c, cfg, i) ==
    IF i > Len(c.RouteMappings.routeMappings) THEN <<>>
    ELSE LET res == getMappingResources(c, c.RouteMappings.routeMappings[i].Guid)
             routeURL == res.route.Host \o <<Dot>> \o res.domainName
             rest == getUnknownRoutesFromAnyApp(c, cfg, i + 1)
         IN  IF res.err # NoError THEN rest
             ELSE IF ~MapHas(cfg.Apps, res.app.Name)
                  THEN <<<<res.app.Name, ":">> \o routeURL>> \o rest
             ELSE IF ~ContainsRoute(cfg.Apps[res.app.Name], routeURL)
                  THEN <<<<res.app.Name, ":">> \o routeURL>> \o rest
                  ELSE rest

RECURSIVE getUnknownRoutesFrom(_, _, _)
getUnknownRoutesFrom(c, cfg, i) ==
    IF i > Len(c.RouteMappings.routeMappings) THEN <<>>
    ELSE LET res == getMappingResources(c, c.RouteMappings.routeMappings[i].Guid)
             routeURL == res.route.Host \o <<Dot>> \o res.domainName
             rest == getUnknownRoutesFrom(c, cfg, i + 1)
         IN  IF res.err # NoError THEN rest
             ELSE IF ~MapHas(cfg.Apps, res.app.Name) THEN rest
             ELSE IF ~ContainsRoute(cfg.Apps[res.app.Name], routeURL)
                  THEN <<<<res.app.Name, ":">> \o routeURL>> \o rest
                  ELSE rest

getUnknownRoutes(c, cfg) == getUnknownRoutesFrom(c, cfg, 1)

validateAppRoutesSilentSkip(m, c, cfg) ==
    IF ~isValid(c) THEN m
    ELSE [m EXCEPT !.totalUnknownRoutes = Len(getUnknownRoutes(c, cfg)),
                   !.totalMissingRoutes = Len(getMissingRoutes(c, cfg)),
                   !.successfulRouteChecks = @ + 1]

\* A route check that runs whenever the App collection is valid.
validateAppRoutesNeedsApps(m, c, cfg) ==
    IF ~c.Apps.Valid THEN Inc(m, "failedRouteChecks")
    ELSE [m EXCEPT !.totalUnknownRoutes = Len(getUnknownRoutes(c, cfg)),
                   !.totalMissingRoutes = Len(getMissingRoutes(c, cfg)),
                   !.successfulRouteChecks = @ + 1]

validateAppRoutes(m, c, cfg) ==
    IF ~isValid(c) THEN Inc(m, "failedRouteChecks")
    ELSE [m EXCEPT !.totalUnknownRoutes = Len(getUnknownRoutes(c, cfg)),
                   !.totalMissingRoutes = Len(getMissingRoutes(c, cfg)),
                   !.successfulRouteChecks = @ + 1]

\* The two lists validateApps collects; a map holds each name once.
unknownApps(c, cfg) == {name \in DOMAIN c.Apps.nameMap : ~MapHas(cfg.Apps, name)}

missingApps(c, cfg) ==
    {name \in DOMAIN cfg.Apps : ~MapHas(c.Apps.nameMap, name) /\ ~cfg.Apps[name].Optional}

validateAppsAddingUp(m, c, cfg) ==
    IF ~c.Apps.Valid THEN Inc(m, "failedAppChecks")
    ELSE [m EXCEPT !.totalUnknownApps = @ + Cardinality(unknownApps(c, cfg)),
                   !.totalMissingApps = @ + Cardinality(missingApps(c, cfg)),
                   !.successfulAppChecks = @ + 1]

validateAppsCountingOptional(m, c, cfg) ==
    IF ~c.Apps.Valid THEN Inc(m, "failedAppChecks")
    ELSE [m EXCEPT !.totalUnknownApps = Cardinality(unknownApps(c, cfg)),
                   !.totalMissingApps =
                       Cardinality({name \in DOMAIN cfg.Apps : ~MapHas(c.Apps.nameMap, name)}),
                   !.successfulAppChecks = @ + 1]

validateApps(m, c, cfg) ==
    IF ~c.Apps.Valid THEN Inc(m, "failedAppChecks")
    ELSE [m EXCEPT !.totalUnknownApps = Cardinality(unknownApps(c, cfg)),
                   !.totalMissingApps = Cardinality(missingApps(c, cfg)),
                   !.successfulAppChecks = @ + 1]

\* AppCache.sshMap: for each deployed app name, whether SSH is enabled.
sshMap(c) == [name \in DOMAIN c.Apps.nameMap |-> c.Apps.nameMap[name].SSHEnabled]

appSSHViolationsWhenStatesAgree(c, cfg) ==
    {name \in DOMAIN cfg.Apps :
        MapHas(sshMap(c), name) /\ cfg.Apps[name].SSHDisabled # sshMap(c)[name]}

appSSHViolations(c, cfg) ==
    {name \in DOMAIN cfg.Apps :
        MapHas(sshMap(c), name) /\ cfg.Apps[name].SSHDisabled = sshMap(c)[name]}

validateAppSSHNeedsAll(m, c, cfg) ==
    IF ~isValid(c) THEN Inc(m, "failedAppSSHChecks")
    ELSE [m EXCEPT !.totalAppSSHViolations = Cardinality(appSSHViolations(c, cfg)),
                   !.successfulAppSSHChecks = @ + 1]

validateAppSSH(m, c, cfg) ==
    IF ~c.Apps.Valid THEN Inc(m, "failedAppSSHChecks")
    ELSE [m EXCEPT !.totalAppSSHViolations = Cardinality(appSSHViolations(c, cfg)),
                   !.successfulAppSSHChecks = @ + 1]

spaceSSHViolationsAnySpace(c, cfg) ==
    {name \in DOMAIN c.Spaces.nameMap :
        c.Spaces.nameMap[name].AllowSSH # MapGet(cfg.Spaces, name, [Name |-> "", AllowSSH |-> FALSE]).AllowSSH}

spaceSSHViolations(c, cfg) ==
    {name \in DOMAIN c.Spaces.nameMap :
        MapHas(cfg.Spaces, name) /\ c.Spaces.nameMap[name].AllowSSH # cfg.Spaces[name].AllowSSH}

\* A space check that publishes zero when it skips.
validateSpacesZeroOnSkip(m, c, cfg) ==
    IF ~c.Spaces.Valid
    THEN [m EXCEPT !.totalSpaceSSHViolations = 0, !.failedSpaceChecks = @ + 1]
    ELSE [m EXCEPT !.totalSpaceSSHViolations = Cardinality(spaceSSHViolations(c, cfg)),
                   !.successfulSpaceChecks = @ + 1]

validateSpaces(m, c, cfg) ==
    IF ~c.Spaces.Valid THEN Inc(m, "failedSpaceChecks")
    ELSE [m EXCEPT !.totalSpaceSSHViolations = Cardinality(spaceSSHViolations(c, cfg)),
                   !.successfulSpaceChecks = @ + 1]

Checks == {"validateApps", "validateAppRoutes", "validateAppSSH", "validateSpaces"}

\* The validation function named `check`.
RunCheck(check, m, c, cfg) ==
    CASE check = "validateApps" -> validateApps(m, c, cfg)
      [] check = "validateAppRoutes" -> validateAppRoutes(m, c, cfg)
      [] check = "validateAppSSH" -> validateAppSSH(m, c, cfg)
      [] check = "validateSpaces" -> validateSpaces(m, c, cfg)

\* getMissingRoutes calls route.Domain() for every route of every
\* configured app that is not optional or is deployed; Domain() indexes
\* the second piece of the route, which a route without a dot lacks.
getMissingRoutesPanics(c, cfg) ==
    \E name \in DOMAIN cfg.Apps :
        LET app == cfg.Apps[name] IN
        /\ (app.Optional /\ MapHas(c.Apps.nameMap, name)) \/ ~app.Optional
        /\ \E i \in 1..Len(app.Routes) : Len(SplitN(app.Routes[i])) < 2

\* A route check that gives up when a route mapping does not resolve.
PanicsOnOrphan(check, c, cfg) ==
    /\ check = "validateAppRoutes"
    /\ isValid(c)
    /\ \/ getMissingRoutesPanics(c, cfg)
       \/ \E i \in 1..Len(c.RouteMappings.routeMappings) :
             getMappingResources(c, c.RouteMappings.routeMappings[i].Guid).err # NoError

\* The validation function named `check` ends in a panic: of the four only
\* validateAppRoutes can, past its gate, in getMissingRoutes.
Panics(check, c, cfg) ==
    /\ check = "validateAppRoutes"
    /\ isValid(c)
    /\ getMissingRoutesPanics(c, cfg)

enabledValidationFunctionsAlwaysSSH(cfg) ==
    (IF cfg.Data.AppConfig.Enabled THEN {"validateApps", "validateAppRoutes"} ELSE {})
    \cup {"validateAppSSH"}
    \cup (IF cfg.Data.SpaceConfig.Enabled THEN {"validateSpaces"} ELSE {})

enabledValidationFunctions(cfg) ==
    (IF cfg.Data.AppConfig.Enabled
     THEN {"validateApps", "validateAppRoutes", "validateAppSSH"} ELSE {})
    \cup (IF cfg.Data.SpaceConfig.Enabled THEN {"validateSpaces"} ELSE {})

----------------------------------------------------------------------------
(* The cache methods as operations; `last` records the call.               *)

\* <X>Cache.refresh of one sub-cache.
Refresh_SubCache(coll) ==
    \E ret \in ListCall(coll) :
        /\ cache' = [cache EXCEPT ![coll] = SubCacheRefresh(coll, @, ret.err, ret.resourceList)]
        /\ last' = [op |-> "refresh", coll |-> coll, err |-> ret.err,
                    resourceList |-> ret.resourceList]
        /\ UNCHANGED detectorVars

Call_isValid ==
    /\ last' = [op |-> "isValid", res |-> isValid(cache)]
    /\ UNCHANGED <<cache, detectorVars>>

Call_findRouteByURL ==
    \E host \in ProbeHosts, domain \in ProbeDomains :
        /\ last' = [op |-> "findRouteByURL", host |-> host, domain |-> domain,
                    res |-> findRouteByURL(cache, host, domain)]
        /\ UNCHANGED <<cache, detectorVars>>

Call_findDomainNameByGUID ==
    \E guid \in ProbeDomainGUIDs :
        /\ last' = [op |-> "findDomainNameByGUID", guid |-> guid,
                    res |-> findDomainNameByGUID(cache, guid)]
        /\ UNCHANGED <<cache, detectorVars>>

Call_getMappingResources ==
    \E mappingGUID \in ProbeMappingGUIDs :
        /\ last' = [op |-> "getMappingResources", mappingGUID |-> mappingGUID,
                    res |-> getMappingResources(cache, mappingGUID)]
        /\ UNCHANGED <<cache, detectorVars>>

NoCall == [op |-> "none"]

Threads == {"main", "loop"}

\* No detector runs: the cache is used on its own.
NoDetector ==
    /\ config = ConfigRequiredWeb
    /\ platform = PlatformDeployed
    /\ metrics = ZeroMetrics
    /\ pc = [t \in Threads |-> "none"]
    /\ rtask = [t \in Threads |-> [coll \in Collections |-> "idle"]]
    /\ vtask = [t \in Threads |-> [check \in Checks |-> "idle"]]
    /\ tick = FALSE
    /\ iter = 0
    /\ now = 0
    /\ clientCreatedAt = 0

\* SpecCache: the cache as constructed, then any sequence of sub-cache
\* refreshes and isValid calls.
InitCache ==
    /\ cache = NewCache
    /\ last = NoCall
    /\ NoDetector

NextCache ==
    \/ \E coll \in Collections : Refresh_SubCache(coll)
    \/ Call_isValid

SpecCache == InitCache /\ [][NextCache]_vars

\* SpecLookup: a cache in which every sub-cache was refreshed successfully,
\* with any of the responses or with an empty list, then any lookups.
Refreshed(coll) ==
    {SubCacheRefresh(coll, NewCache[coll], FALSE, resourceList) :
        resourceList \in Responses(coll) \cup {<<>>}}

InitLookup ==
    /\ cache \in [Apps : Refreshed("Apps"), Routes : Refreshed("Routes"),
                  RouteMappings : Refreshed("RouteMappings"),
                  Domains : Refreshed("Domains"),
                  SharedDomains : Refreshed("SharedDomains"),
                  Spaces : {SpaceCacheRefresh(NewSpaceCache, FALSE, <<>>)}]
    /\ last = NoCall
    /\ NoDetector

NextLookup ==
    \/ Call_findRouteByURL
    \/ Call_findDomainNameByGUID
    \/ Call_getMappingResources

SpecLookup == InitLookup /\ [][NextLookup]_vars

----------------------------------------------------------------------------
(* The detector: NewDetector on the "main" thread, Detector.start on the   *)
(* "loop" goroutine it launches, and the goroutines Refresh and Validate   *)
(* fan out to.                                                             *)

\* Loop iterations the model follows.  Where Validate is called on its
\* own, two calls more than this are followed.
MaxIter == 1

\* newCFClient returns a client or ends the process through logger.Fatalw.
newCFClient == {"client", "fatal"}

Exited == [t \in Threads |-> "exited"]

clientAgeLimitHours == 8

\* A client that counts as aged from the limit on.
clientAgedFromLimit == now - clientCreatedAt >= clientAgeLimitHours * Hour

\* time.Since(clientCreatedAt).Hours() > clientAgeLimitHours
clientAged == now - clientCreatedAt > clientAgeLimitHours * Hour

\* Refresh up to its barrier: re-create the client when it is older than
\* clientAgeLimitHours and note when, then start the six refresh
\* goroutines.  `made` is the outcome of newCFClient.
Refresh_FanOut(t, made) ==
    IF clientAged /\ made = "fatal"
    THEN pc' = Exited /\ UNCHANGED <<rtask, clientCreatedAt>>
    ELSE /\ clientCreatedAt' = IF clientAged THEN now ELSE clientCreatedAt
         /\ pc' = [pc EXCEPT ![t] = "Refresh"]
         /\ rtask' = [rtask EXCEPT ![t] = [coll \in Collections |-> "running"]]

\* waitgroup.Wait() of Refresh
RefreshReturnsAtOnce(t) == TRUE

RefreshWait(t) == \A coll \in Collections : rtask[t][coll] # "running"

\* waitgroup.Wait() of Validate
ValidateReturnsAtOnce(t) == TRUE

ValidateWait(t) == \A check \in Checks : vtask[t][check] # "running"

\* NewDetector down to the barrier of the first Refresh: NewCFResourceCache
\* builds the empty cache, creates the client and calls Refresh.
NewDetector_NewCFResourceCache ==
    /\ pc["main"] = "NewDetector"
    /\ cache' = NewCache
    /\ \E made \in newCFClient :
          IF made = "fatal"
          THEN pc' = Exited /\ UNCHANGED <<rtask, clientCreatedAt>>
          ELSE \E remade \in newCFClient : Refresh_FanOut("main", remade)
    /\ UNCHANGED <<last, config, platform, metrics, vtask, tick, iter, now>>

\* A refresh goroutine whose failure marks the whole cache invalid.
Refresh_SubTaskInvalidatingAll(t, coll) ==
    /\ rtask[t][coll] = "running"
    /\ \E ret \in PlatformListCall(platform, coll) :
          /\ cache' = IF ret.err
                      THEN [other \in Collections |-> [cache[other] EXCEPT !.Valid = FALSE]]
                      ELSE [cache EXCEPT
                               ![coll] = SubCacheRefresh(coll, @, ret.err, ret.resourceList)]
          /\ rtask' = [rtask EXCEPT ![t][coll] = IF ret.err THEN "failed" ELSE "ok"]
    /\ UNCHANGED <<last, config, platform, metrics, pc, vtask, tick, iter, now, clientCreatedAt>>

\* One refresh goroutine of the Refresh call of thread t.
Refresh_SubTask(t, coll) ==
    /\ rtask[t][coll] = "running"
    /\ \E ret \in PlatformListCall(platform, coll) :
          /\ cache' = [cache EXCEPT
                          ![coll] = SubCacheRefresh(coll, @, ret.err, ret.resourceList)]
          /\ rtask' = [rtask EXCEPT ![t][coll] = IF ret.err THEN "failed" ELSE "ok"]
    /\ UNCHANGED <<last, config, platform, metrics, pc, vtask, tick, iter, now, clientCreatedAt>>

\* Refresh returns to thread t, which calls Validate: Validate starts one
\* goroutine per enabled validation function.
Validate_FanOut(t) ==
    /\ pc[t] = "Refresh"
    /\ RefreshWait(t)
    /\ pc' = [pc EXCEPT ![t] = "Validate"]
    /\ rtask' = [rtask EXCEPT ![t] =
                    [coll \in Collections |-> IF @[coll] = "running" THEN "running" ELSE "idle"]]
    /\ vtask' = [vtask EXCEPT ![t] =
                    [check \in Checks |->
                        IF check \in enabledValidationFunctions(config)
                        THEN "running" ELSE @[check]]]
    /\ UNCHANGED <<cache, last, config, platform, metrics, tick, iter, now, clientCreatedAt>>

\* One validation goroutine of the Validate call of thread t.  A panic in
\* it is recovered nowhere and ends the process.
Validate_SubTask(t, check) ==
    /\ vtask[t][check] = "running"
    /\ pc[t] # "exited"
    /\ IF Panics(check, cache, config)
       THEN pc' = Exited /\ UNCHANGED <<metrics, vtask>>
       ELSE /\ metrics' = RunCheck(check, metrics, cache, config)
            /\ vtask' = [vtask EXCEPT ![t][check] = "done"]
            /\ UNCHANGED pc
    /\ UNCHANGED <<cache, last, config, platform, rtask, tick, iter, now, clientCreatedAt>>

Validate_Returned(t) ==
    [vtask EXCEPT ![t] = [check \in Checks |-> IF @[check] = "running" THEN "running" ELSE "idle"]]

\* The first Validate returns; NewDetector starts the loop and returns.
NewDetector_ReturnDuringValidate ==
    /\ pc["main"] = "Validate"
    /\ pc' = [main |-> "returned", loop |-> "ticker"]
    /\ vtask' = Validate_Returned("main")
    /\ UNCHANGED <<cache, last, config, platform, metrics, rtask, tick, iter, now, clientCreatedAt>>

NewDetector_Return ==
    /\ pc["main"] = "Validate"
    /\ ValidateWait("main")
    /\ pc' = [main |-> "returned", loop |-> "ticker"]
    /\ vtask' = Validate_Returned("main")
    /\ UNCHANGED <<cache, last, config, platform, metrics, rtask, tick, iter, now, clientCreatedAt>>

\* The ticker fires, one refresh interval after it last did; its channel
\* holds one tick and drops the rest.
Ticker ==
    /\ pc["loop"] \in {"ticker", "Refresh", "Validate"}
    /\ ~tick
    /\ tick' = TRUE
    /\ now' = now + config.Data.GlobalConfig.RefreshInterval
    /\ UNCHANGED <<cache, last, config, platform, metrics, pc, rtask, vtask, iter,
                   clientCreatedAt>>

\* The loop receives a tick and calls Refresh.
start_Refresh ==
    /\ pc["loop"] = "ticker"
    /\ tick
    /\ iter < MaxIter
    /\ tick' = FALSE
    /\ iter' = iter + 1
    /\ \E made \in newCFClient : Refresh_FanOut("loop", made)
    /\ UNCHANGED <<cache, last, config, platform, metrics, vtask, now>>

\* Validate returns to the loop, which waits for the next tick.
start_Next ==
    /\ pc["loop"] = "Validate"
    /\ ValidateWait("loop")
    /\ pc' = [pc EXCEPT !["loop"] = "ticker"]
    /\ vtask' = Validate_Returned("loop")
    /\ UNCHANGED <<cache, last, config, platform, metrics, rtask, tick, iter, now, clientCreatedAt>>

NotStarted ==
    /\ metrics = ZeroMetrics
    /\ pc = [main |-> "NewDetector", loop |-> "none"]
    /\ rtask = [t \in Threads |-> [coll \in Collections |-> "idle"]]
    /\ vtask = [t \in Threads |-> [check \in Checks |-> "idle"]]
    /\ tick = FALSE
    /\ iter = 0
    /\ now = 0
    /\ clientCreatedAt = 0

\* Spec: one detector, from the call of NewDetector on, with every
\* interleaving of its goroutines.
Init ==
    /\ cache = NewCache
    /\ last = NoCall
    /\ config = ConfigRequiredWeb
    /\ platform = PlatformDeployed
    /\ NotStarted

Next ==
    \/ NewDetector_NewCFResourceCache
    \/ \E t \in Threads, coll \in Collections : Refresh_SubTask(t, coll)
    \/ \E t \in Threads : Validate_FanOut(t)
    \/ \E t \in Threads, check \in Checks : Validate_SubTask(t, check)
    \/ NewDetector_Return
    \/ Ticker
    \/ start_Refresh
    \/ start_Next

Spec == Init /\ [][Next]_vars

\* A Refresh that leaves alone a collection that an earlier fetch filled and
\* a later one marked invalid.
RefreshResultSkippingInvalid(c, p, failing) ==
    [coll \in Collections |->
        IF ~c[coll].Valid /\ Items(coll, c[coll]) # <<>>
        THEN c[coll]
        ELSE SubCacheRefresh(coll, c[coll], coll \in failing,
                             IF coll \in failing THEN <<>> ELSE p[coll])]

\* The cache a Refresh of cache `c` against platform `p` leaves when the
\* list calls of the collections in `failing` fail.
RefreshResult(c, p, failing) ==
    [coll \in Collections |->
        SubCacheRefresh(coll, c[coll], coll \in failing,
                        IF coll \in failing THEN <<>> ELSE p[coll])]

\* SpecDetector: the detector against each platform and each config, with
\* a Refresh call taken as one step from its first line to its return.
Refresh_Whole(t, made) ==
    IF clientAged /\ made = "fatal"
    THEN pc' = Exited /\ UNCHANGED <<cache, rtask, clientCreatedAt>>
    ELSE \E failing \in SUBSET Collections :
            /\ clientCreatedAt' = IF clientAged THEN now ELSE clientCreatedAt
            /\ cache' = RefreshResult(cache, platform, failing)
            /\ rtask' = [rtask EXCEPT ![t] =
                            [coll \in Collections |->
                                IF coll \in failing THEN "failed" ELSE "ok"]]
            /\ pc' = [pc EXCEPT ![t] = "Refresh"]

\* NewDetector down to the return of the first Refresh.
NewDetector_Refreshed ==
    /\ pc["main"] = "NewDetector"
    /\ cache = NewCache
    /\ \E made \in newCFClient :
          IF made = "fatal"
          THEN pc' = Exited /\ UNCHANGED <<cache, rtask, clientCreatedAt>>
          ELSE \E remade \in newCFClient : Refresh_Whole("main", remade)
    /\ UNCHANGED <<last, config, platform, metrics, vtask, tick, iter, now>>

\* The loop receives a tick and Refresh runs to its return.
start_Refreshed ==
    /\ pc["loop"] = "ticker"
    /\ tick
    /\ iter < MaxIter
    /\ tick' = FALSE
    /\ iter' = iter + 1
    /\ \E made \in newCFClient : Refresh_Whole("loop", made)
    /\ UNCHANGED <<last, config, platform, metrics, vtask, now>>

InitDetector ==
    /\ cache = NewCache
    /\ last = NoCall
    /\ config \in Configs
    /\ platform \in Platforms
    /\ NotStarted

NextDetector ==
    \/ NewDetector_Refreshed
    \/ \E t \in Threads : Validate_FanOut(t)
    \/ \E t \in Threads, check \in Checks : Validate_SubTask(t, check)
    \/ NewDetector_Return
    \/ Ticker
    \/ start_Refreshed
    \/ start_Next

SpecDetector == InitDetector /\ [][NextDetector]_vars

\* SpecServe: the detector and, once NewDetector has returned and main has
\* called api.Serve, the goroutines of the api package.  Each is described
\* by what it reads of the process's shared state and which of that it
\* reads under a lock; `last` holds the one that is running, and the loop
\* iteration during which it began.

\* A handler for /health that asks the API client itself.
healthHandlerGetInfo ==
    [op |-> "healthHandler", reads |-> {"metricsEndpoint", "client"}, locked |-> {}]

\* healthHandler: watchtowerHealth.Get(), under the read lock.
healthHandler ==
    [op |-> "healthHandler", reads |-> {"watchtowerHealth"},
     locked |-> {"watchtowerHealth"}]

\* monitorHealth: two GET requests, then watchtowerHealth.Set().
monitorHealth ==
    [op |-> "monitorHealth", reads |-> {"metricsEndpoint", "cloudControllerInfoEndpoint"},
     locked |-> {}]

api_Begin ==
    /\ pc["main"] = "returned"
    /\ last = NoCall
    /\ \E g \in {healthHandler, monitorHealth} :
          last' = [op |-> g.op, reads |-> g.reads, locked |-> g.locked, began |-> iter]
    /\ UNCHANGED <<cache, detectorVars>>

api_End ==
    /\ last # NoCall
    /\ last' = NoCall
    /\ UNCHANGED <<cache, detectorVars>>

NextServe ==
    \/ NextDetector
    \/ api_Begin
    \/ api_End

InitServe ==
    /\ cache = NewCache
    /\ last = NoCall
    /\ config = ConfigSpacesOnly
    /\ platform = PlatformDeployed
    /\ NotStarted

SpecServe == InitServe /\ [][NextServe]_vars

\* SpecValidate: the owner of a detector calls Validate several times in a
\* row, starting where NewDetector makes the first call: the cache has had
\* its first Refresh and the metrics are zero.  `last` keeps the metrics at
\* the time of this call and of the call before.
ValidateCalls == IF last.op = "Validate" THEN last.n ELSE 0

Call_Validate ==
    /\ pc["main"] = "caller"
    /\ ValidateCalls < MaxIter + 2
    /\ pc' = [pc EXCEPT !["main"] = "Validate"]
    /\ vtask' = [vtask EXCEPT !["main"] =
                    [check \in Checks |->
                        IF check \in enabledValidationFunctions(config)
                        THEN "running" ELSE @[check]]]
    /\ last' = [op |-> "Validate", n |-> ValidateCalls + 1, before |-> metrics,
                earlier |-> IF last.op = "Validate" THEN last.before ELSE metrics]
    /\ UNCHANGED <<cache, config, platform, metrics, rtask, tick, iter, now, clientCreatedAt>>

Return_Validate ==
    /\ pc["main"] = "Validate"
    /\ ValidateWait("main")
    /\ pc' = [pc EXCEPT !["main"] = "caller"]
    /\ vtask' = Validate_Returned("main")
    /\ UNCHANGED <<cache, last, config, platform, metrics, rtask, tick, iter, now, clientCreatedAt>>

InitValidate ==
    /\ config \in Configs
    /\ platform \in Platforms
    /\ cache \in {RefreshResult(NewCache, platform, failing) : failing \in SUBSET Collections}
    /\ last = NoCall
    /\ metrics = ZeroMetrics
    /\ pc = [main |-> "caller", loop |-> "none"]
    /\ rtask = [t \in Threads |-> [coll \in Collections |-> "idle"]]
    /\ vtask = [t \in Threads |-> [check \in Checks |-> "idle"]]
    /\ tick = FALSE
    /\ iter = 0
    /\ now = 0
    /\ clientCreatedAt = 0

NextValidate ==
    \/ Call_Validate
    \/ \E check \in Checks : Validate_SubTask("main", check)
    \/ Return_Validate

SpecValidate == InitValidate /\ [][NextValidate]_vars

\* The metrics a Validate pass over cache `c` leaves when it starts from
\* `m` and its checks run one after the other in the order they are listed.
ValidateResult(m, c, cfg) ==
    LET run(check, mm) ==
            IF check \in enabledValidationFunctions(cfg) THEN RunCheck(check, mm, c, cfg) ELSE mm
    IN  run("validateSpaces",
            run("validateAppSSH", run("validateAppRoutes", run("validateApps", m))))

\* SpecIteration: one iteration of the loop with every interleaving of its
\* goroutines, from the receipt of a tick to the return of Validate,
\* starting in each state NewDetector can return in.  `last` keeps the
\* cache and the metrics the iteration started from.
start_Tick ==
    /\ pc["loop"] = "ticker"
    /\ tick
    /\ tick' = FALSE
    /\ iter' = iter + 1
    /\ \E made \in newCFClient : Refresh_FanOut("loop", made)
    /\ last' = [op |-> "start", cache |-> cache, metrics |-> metrics]
    /\ UNCHANGED <<cache, config, platform, metrics, vtask, now>>

InitIteration ==
    /\ config = ConfigRequiredWeb
    /\ platform = PlatformDeployed
    /\ cache \in {RefreshResult(NewCache, platform, failing) : failing \in SUBSET Collections}
    /\ last = NoCall
    /\ metrics = ValidateResult(ZeroMetrics, cache, config)
    /\ pc = [main |-> "returned", loop |-> "ticker"]
    /\ rtask = [t \in Threads |-> [coll \in Collections |-> "idle"]]
    /\ vtask = [t \in Threads |-> [check \in Checks |-> "idle"]]
    /\ tick = TRUE
    /\ iter = 0
    /\ now = config.Data.GlobalConfig.RefreshInterval
    /\ clientCreatedAt = 0

NextIteration ==
    \/ start_Tick
    \/ \E coll \in Collections : Refresh_SubTask("loop", coll)
    \/ Validate_FanOut("loop")
    \/ \E check \in Checks : Validate_SubTask("loop", check)
    \/ start_Next

SpecIteration == InitIteration /\ [][NextIteration]_vars

\* SpecTicker: the detector with the ticker firing whether or not the loop
\* is ready for it.  ticker.C holds one tick; a tick that fires while one
\* is held is dropped.  `last` counts the ticks fired, the ticks dropped,
\* and the ticks fired while the latest iteration was running.
MaxTicks == 3

NoTicks == [op |-> "Ticker", fired |-> 0, dropped |-> 0, overrun |-> 0]

Ticker_Send ==
    /\ pc["loop"] \in {"ticker", "Refresh", "Validate"}
    /\ last.fired < MaxTicks
    /\ tick' = TRUE
    /\ now' = now + config.Data.GlobalConfig.RefreshInterval
    /\ last' = [last EXCEPT !.fired = @ + 1,
                            !.dropped = IF tick THEN @ + 1 ELSE @,
                            !.overrun = IF pc["loop"] = "ticker" THEN @ ELSE @ + 1]
    /\ UNCHANGED <<cache, config, platform, metrics, pc, rtask, vtask, iter, clientCreatedAt>>

\* A loop that takes up a tick and leaves it in the channel.
start_ReceiveLeavingTick ==
    /\ pc["loop"] = "ticker"
    /\ tick
    /\ tick' = tick
    /\ iter' = iter + 1
    /\ \E made \in newCFClient : Refresh_Whole("loop", made)
    /\ last' = [last EXCEPT !.overrun = 0]
    /\ UNCHANGED <<config, platform, metrics, vtask, now>>

\* The loop receives the tick the channel holds and Refresh runs to its
\* return.
start_Receive ==
    /\ pc["loop"] = "ticker"
    /\ tick
    /\ tick' = FALSE
    /\ iter' = iter + 1
    /\ \E made \in newCFClient : Refresh_Whole("loop", made)
    /\ last' = [last EXCEPT !.overrun = 0]
    /\ UNCHANGED <<config, platform, metrics, vtask, now>>

InitTicker ==
    /\ cache = NewCache
    /\ last = NoTicks
    /\ config = ConfigSpacesOnly
    /\ platform = PlatformBare
    /\ NotStarted

LoopTicker ==
    \/ start_Receive
    \/ Validate_FanOut("loop")
    \/ \E check \in Checks : Validate_SubTask("loop", check)
    \/ start_Next

NextTicker ==
    \/ NewDetector_Refreshed
    \/ Validate_FanOut("main")
    \/ \E check \in Checks : Validate_SubTask("main", check)
    \/ NewDetector_Return
    \/ Ticker_Send
    \/ LoopTicker

SpecTicker == InitTicker /\ [][NextTicker]_vars

\* SpecTickerLive: SpecTicker with the scheduling the runtime gives.  A
\* goroutine that can take a step takes it: NewDetector and the checks it
\* waits for, the loop and the checks it waits for (a Refresh step stands
\* for a Refresh whose list calls have all returned), and the ticker, which
\* fires for as long as the loop exists.
MainTicker ==
    \/ NewDetector_Refreshed
    \/ Validate_FanOut("main")
    \/ \E check \in Checks : Validate_SubTask("main", check)
    \/ NewDetector_Return

SpecTickerLive ==
    SpecTicker /\ WF_vars(MainTicker) /\ WF_vars(LoopTicker) /\ WF_vars(Ticker_Send)

\* SpecDotless: the detector with a configuration file in which the
\* optional app web has a route without a dot; loadData does not look at
\* route strings.
FileDotless ==
    File(9 * Hour, TRUE,
         <<[Name |-> "web", Optional |-> TRUE, SSHDisabled |-> FALSE,
            Routes |-> <<Web \o <<Dot>> \o AppsExample, Web>>]>>,
         TRUE,
         <<[Name |-> "dev", AllowSSH |-> FALSE]>>)

InitDotless ==
    /\ cache = NewCache
    /\ last = NoCall
    /\ config = loadData(FileDotless).conf
    /\ platform \in Platforms
    /\ NotStarted

SpecDotless == InitDotless /\ [][NextDetector]_vars

\* SpecViewer: the ConfigViewer of the revision that has one.  `cache` is
\* the viewer's three slices, `metrics` the six update counters, pc["main"]
\* the caller of NewConfigViewer, pc["loop"] the goroutine that start
\* launches, and rtask["loop"] the three refresh goroutines of the running
\* Refresh.  `last` holds the running Refresh call: its three channels, what
\* each goroutine fetched and how often it sent, the values received, the
\* viewer and the counters when the call began; and beside them the number
\* of Refresh calls completed, the goroutines of earlier calls that still
\* have a send to make, and what the latest getter call returned.
ViewerResources == {"Apps", "Routes", "SharedDomains"}

Field == [Apps |-> "v3Apps", Routes |-> "routes", SharedDomains |-> "sharedDomains"]

FailedUpdates ==
    [Apps |-> "failedAppUpdates", Routes |-> "failedRouteUpdates",
     SharedDomains |-> "failedSharedDomainsUpdates"]

SuccessUpdates ==
    [Apps |-> "successfulAppUpdates", Routes |-> "successfulRouteUpdates",
     SharedDomains |-> "successfulSharedDomainsUpdates"]

ZeroUpdates ==
    [failedAppUpdates |-> 0, failedRouteUpdates |-> 0, failedSharedDomainsUpdates |-> 0,
     successfulAppUpdates |-> 0, successfulRouteUpdates |-> 0,
     successfulSharedDomainsUpdates |-> 0]

\* The viewer as NewConfigViewer builds it: 0-length slices.
NewViewer == [v3Apps |-> <<>>, routes |-> <<>>, sharedDomains |-> <<>>]

NoRefresh ==
    [op |-> "Refresh",
     chan |-> [res \in ViewerResources |-> <<>>],
     sent |-> [res \in ViewerResources |-> 0],
     err |-> [res \in ViewerResources |-> FALSE],
     fetched |-> [res \in ViewerResources |-> <<>>],
     got |-> [res \in ViewerResources |-> <<>>],
     viewer |-> NewViewer,
     metrics |-> ZeroUpdates,
     refreshes |-> 0,
     stale |-> 0,
     observed |-> <<>>]

\* NewConfigViewer: builds the viewer and calls start, which launches the
\* refreshing goroutine and returns.
NewConfigViewer ==
    /\ pc = [main |-> "NewConfigViewer", loop |-> "idle"]
    /\ cache' = NewViewer
    /\ pc' = [main |-> "returned", loop |-> "Refresh"]
    /\ UNCHANGED <<last, config, platform, metrics, rtask, vtask, tick, iter, now,
                   clientCreatedAt>>

\* Refresh up to its first receive: three new channels, three goroutines.
\* A goroutine of the previous call that has not made its second send yet
\* stays behind with its abandoned channel.
Refresh_Go ==
    /\ pc["loop"] = "Refresh"
    /\ rtask' = [rtask EXCEPT !["loop"] =
                    [coll \in Collections |->
                        IF coll \in ViewerResources THEN "running" ELSE "idle"]]
    /\ last' = [last EXCEPT
                   !.chan = [res \in ViewerResources |-> <<>>],
                   !.sent = [res \in ViewerResources |-> 0],
                   !.err = [res \in ViewerResources |-> FALSE],
                   !.fetched = [res \in ViewerResources |-> <<>>],
                   !.got = [res \in ViewerResources |-> <<>>],
                   !.viewer = cache,
                   !.metrics = metrics,
                   !.stale = @ + (IF rtask["loop"]["SharedDomains"] = "blocked" THEN 1 ELSE 0)]
    /\ pc' = [pc EXCEPT !["loop"] = "receiveApps"]
    /\ UNCHANGED <<cache, config, platform, metrics, vtask, tick, iter, now, clientCreatedAt>>

\* A refresh goroutine that sends what the failed call returned.
refreshXSendingFetched(res, returns) ==
    /\ rtask["loop"][res] = "running"
    /\ \E call \in ListCall(res) :
          /\ metrics' = IF call.err THEN Inc(metrics, FailedUpdates[res])
                        ELSE Inc(metrics, SuccessUpdates[res])
          /\ last' = [last EXCEPT
                         !.chan[res] = Append(@, call.resourceList),
                         !.sent[res] = @ + 1,
                         !.err[res] = call.err,
                         !.fetched[res] = call.resourceList]
          /\ rtask' = [rtask EXCEPT !["loop"][res] = "done"]
    /\ UNCHANGED <<cache, config, platform, pc, vtask, tick, iter, now, clientCreatedAt>>

\* refreshV3Apps, refreshRoutes, refreshSharedDomains up to the point where
\* the goroutine ends or blocks.  The list call fails or succeeds; on
\* failure the failed counter goes up and a copy of the current slice is
\* sent, on success the success counter goes up and the fetched list is
\* sent.  `returns` says whether the failure branch ends in a return: where
\* it does not, the goroutine goes on to the success counter and to a
\* second send, which has to wait for room in the channel.
refreshX(res, returns) ==
    /\ rtask["loop"][res] = "running"
    /\ \E call \in ListCall(res) :
          IF call.err
          THEN /\ metrics' = IF returns THEN Inc(metrics, FailedUpdates[res])
                             ELSE Inc(Inc(metrics, FailedUpdates[res]), SuccessUpdates[res])
               /\ last' = [last EXCEPT
                              !.chan[res] = Append(@, cache[Field[res]]),
                              !.sent[res] = @ + 1,
                              !.err[res] = TRUE,
                              !.fetched[res] = call.resourceList]
               /\ rtask' = [rtask EXCEPT !["loop"][res] =
                               IF returns THEN "done" ELSE "blocked"]
          ELSE /\ metrics' = Inc(metrics, SuccessUpdates[res])
               /\ last' = [last EXCEPT
                              !.chan[res] = Append(@, call.resourceList),
                              !.sent[res] = @ + 1,
                              !.fetched[res] = call.resourceList]
               /\ rtask' = [rtask EXCEPT !["loop"][res] = "done"]
    /\ UNCHANGED <<cache, config, platform, pc, vtask, tick, iter, now, clientCreatedAt>>

refreshV3Apps == refreshX("Apps", TRUE)

refreshRoutes == refreshX("Routes", TRUE)

refreshSharedDomains == refreshX("SharedDomains", FALSE)

\* The second send of refreshSharedDomains after a failed call: on the
\* channel of the running Refresh once the first value has been received,
\* or on the abandoned channel of an earlier one.
refreshSharedDomains_Send ==
    /\ \/ /\ rtask["loop"]["SharedDomains"] = "blocked"
          /\ last.chan["SharedDomains"] = <<>>
          /\ last' = [last EXCEPT
                         !.chan["SharedDomains"] = Append(@, last.fetched["SharedDomains"]),
                         !.sent["SharedDomains"] = @ + 1]
          /\ rtask' = [rtask EXCEPT !["loop"]["SharedDomains"] = "done"]
       \/ /\ last.stale > 0
          /\ last' = [last EXCEPT !.stale = @ - 1]
          /\ UNCHANGED rtask
    /\ UNCHANGED <<cache, config, platform, metrics, pc, vtask, tick, iter, now,
                   clientCreatedAt>>

Receive == [Apps |-> "receiveApps", Routes |-> "receiveRoutes",
            SharedDomains |-> "receiveSharedDomains"]

\* Refresh from one receive to the next, and from the last receive to its
\* return: the three received values become the viewer's slices.
Refresh_Receive(res) ==
    /\ pc["loop"] = Receive[res]
    /\ last.chan[res] # <<>>
    /\ IF res = "SharedDomains"
       THEN /\ cache' = [v3Apps |-> last.got["Apps"], routes |-> last.got["Routes"],
                         sharedDomains |-> Head(last.chan[res])]
            /\ last' = [last EXCEPT !.chan[res] = Tail(@), !.got[res] = Head(last.chan[res]),
                                    !.refreshes = @ + 1]
            /\ pc' = [pc EXCEPT !["loop"] = "ticker"]
       ELSE /\ last' = [last EXCEPT !.chan[res] = Tail(@), !.got[res] = Head(last.chan[res])]
            /\ pc' = [pc EXCEPT !["loop"] =
                         IF res = "Apps" THEN Receive["Routes"] ELSE Receive["SharedDomains"]]
            /\ UNCHANGED cache
    /\ UNCHANGED <<config, platform, metrics, rtask, vtask, tick, iter, now, clientCreatedAt>>

\* for range ticker.C of the viewer's goroutine.
Viewer_Tick ==
    /\ pc["loop"] = "ticker"
    /\ iter < MaxIter
    /\ iter' = iter + 1
    /\ pc' = [pc EXCEPT !["loop"] = "Refresh"]
    /\ UNCHANGED <<cache, last, config, platform, metrics, rtask, vtask, tick, now,
                   clientCreatedAt>>

\* V3Apps, Routes, SharedDomains: a copy of the slice, called by whoever
\* holds the viewer NewConfigViewer returned.
Viewer_Get(res) ==
    /\ pc["main"] = "returned"
    /\ last' = [last EXCEPT !.observed =
                   <<[getter |-> res, value |-> cache[Field[res]],
                      refreshes |-> last.refreshes]>>]
    /\ UNCHANGED <<cache, detectorVars>>

InitViewer ==
    /\ cache = NewViewer
    /\ last = NoRefresh
    /\ config = ConfigSpacesOnly
    /\ platform = PlatformDeployed
    /\ metrics = ZeroUpdates
    /\ pc = [main |-> "NewConfigViewer", loop |-> "idle"]
    /\ rtask = [t \in Threads |-> [coll \in Collections |-> "idle"]]
    /\ vtask = [t \in Threads |-> [check \in Checks |-> "idle"]]
    /\ tick = FALSE
    /\ iter = 0
    /\ now = 0
    /\ clientCreatedAt = 0

NextViewer ==
    \/ NewConfigViewer
    \/ Refresh_Go
    \/ refreshV3Apps
    \/ refreshRoutes
    \/ refreshSharedDomains
    \/ refreshSharedDomains_Send
    \/ \E res \in ViewerResources : Refresh_Receive(res)
    \/ Viewer_Tick
    \/ \E res \in ViewerResources : Viewer_Get(res)

SpecViewer == InitViewer /\ [][NextViewer]_vars

\* SpecHealth: the api package once main has called api.Serve, with the
\* detector idle.  `last` holds the package's state: watchtowerHealth, the
\* URLs the latest monitor tick requested and what came of each request,
\* the number of ticks so far, and the latest answer of /health.
StatusOK == 200

StatusInternalServerError == 500

healthyStatus == [StatusCode |-> StatusOK, Message |-> "Healthy"]

\* What a GET request comes to: a 200 response, an error of http.Get, a
\* response with another status, or a 200 response whose body fails to
\* close.
Gets == {"ok", "connection refused", "timeout", "status", "close fails"}

getEndpointHealth(get) ==
    CASE get = "ok" -> healthyStatus
      [] get \in {"connection refused", "timeout"} ->
            [StatusCode |-> StatusInternalServerError, Message |-> get]
      [] get = "status" -> [StatusCode |-> StatusInternalServerError, Message |-> "Unhealthy"]

metricsEndpoint(cfg) == <<"http://localhost:", cfg.Data.GlobalConfig.HTTPBindPort, "/metrics">>

cloudControllerInfoEndpoint(cfg) == cfg.Data.GlobalConfig.CloudControllerURL \o <<"/v2/info">>

Served ==
    [op |-> "Serve", watchtowerHealth |-> healthyStatus, requested |-> <<>>, gets |-> <<>>,
     ticks |-> 0, response |-> 0]

\* A monitor that asks the cloud controller whatever /metrics answered.
monitorHealth_TickAsksBoth ==
    /\ pc["main"] = "Serve"
    /\ last.ticks < MaxTicks
    /\ \E first \in Gets, second \in Gets :
          IF first = "close fails" \/ second = "close fails"
          THEN pc' = Exited /\ UNCHANGED last
          ELSE /\ last' = [last EXCEPT
                               !.watchtowerHealth = getEndpointHealth(second),
                               !.requested = <<metricsEndpoint(config),
                                               cloudControllerInfoEndpoint(config)>>,
                               !.gets = <<first, second>>,
                               !.ticks = @ + 1]
               /\ UNCHANGED pc
    /\ UNCHANGED <<cache, config, platform, metrics, rtask, vtask, tick, iter, now,
                   clientCreatedAt>>

\* One iteration of monitorHealth's loop: it asks /metrics and, when that
\* is healthy, the cloud controller, and stores the last status it got.  A
\* body that fails to close ends the process through logger.Fatalw.
monitorHealth_Tick ==
    /\ pc["main"] = "Serve"
    /\ last.ticks < MaxTicks
    /\ \E first \in Gets, second \in Gets :
          IF first = "close fails"
          THEN second = "ok" /\ pc' = Exited /\ UNCHANGED last
          ELSE IF getEndpointHealth(first) # healthyStatus
          THEN /\ second = "ok"
               /\ last' = [last EXCEPT
                               !.watchtowerHealth = getEndpointHealth(first),
                               !.requested = <<metricsEndpoint(config)>>,
                               !.gets = <<first>>,
                               !.ticks = @ + 1]
               /\ UNCHANGED pc
          ELSE IF second = "close fails"
          THEN pc' = Exited /\ UNCHANGED last
          ELSE /\ last' = [last EXCEPT
                               !.watchtowerHealth = getEndpointHealth(second),
                               !.requested = <<metricsEndpoint(config),
                                               cloudControllerInfoEndpoint(config)>>,
                               !.gets = <<first, second>>,
                               !.ticks = @ + 1]
               /\ UNCHANGED pc
    /\ UNCHANGED <<cache, config, platform, metrics, rtask, vtask, tick, iter, now,
                   clientCreatedAt>>

\* healthHandler answers a request to /health.
healthHandler_Serve ==
    /\ pc["main"] = "Serve"
    /\ last' = [last EXCEPT !.response = last.watchtowerHealth.StatusCode]
    /\ UNCHANGED <<cache, detectorVars>>

InitHealth ==
    /\ config \in Configs
    /\ platform \in Platforms
    /\ cache = RefreshResult(NewCache, platform, {})
    /\ last = Served
    /\ metrics = ValidateResult(ZeroMetrics, cache, config)
    /\ pc = [main |-> "Serve", loop |-> "ticker"]
    /\ rtask = [t \in Threads |-> [coll \in Collections |-> "idle"]]
    /\ vtask = [t \in Threads |-> [check \in Checks |-> "idle"]]
    /\ tick = FALSE
    /\ iter = 0
    /\ now = 0
    /\ clientCreatedAt = 0

NextHealth ==
    \/ monitorHealth_Tick
    \/ healthHandler_Serve

SpecHealth == InitHealth /\ [][NextHealth]_vars

\* SpecConfig: loadData is called on configuration files whose global
\* section gives, or leaves out, each of the three keys.
PortFields == {EmptyMap, "port" :> 0, "port" :> 8080, "port" :> MaxUint16 + 1}

IntervalFields ==
    {EmptyMap, "refresh_interval" :> 0, "refresh_interval" :> minRefreshInterval - 1,
     "refresh_interval" :> minRefreshInterval, "refresh_interval" :> 2 * Hour,
     "interval" :> 2 * Hour}

URLs ==
    {<<"https", "://", "api.example">>, <<"https", "://", "api.example", "/", "v2">>,
     <<"http", "://", "api.example">>, <<"https", "://", "api.example", "/", "..">>,
     <<"https", "://", "api.example", "?", "q">>, <<"/", "v2">>, <<"api.example">>,
     <<>>}

URLFields == {EmptyMap} \cup {"cloud_controller_url" :> u : u \in URLs}

Files ==
    {[f EXCEPT !.global = p @@ i @@ u] :
        f \in {FileRequiredWeb, FileOptionalWeb},
        p \in PortFields, i \in IntervalFields, u \in URLFields}

Call_loadData ==
    /\ \E dataSource \in Files :
          last' = [op |-> "loadData", dataSource |-> dataSource, res |-> loadData(dataSource)]
    /\ UNCHANGED <<cache, detectorVars>>

InitConfig ==
    /\ cache = NewCache
    /\ last = NoCall
    /\ NoDetector

NextConfig == Call_loadData

SpecConfig == InitConfig /\ [][NextConfig]_vars

\* SpecRoute: Host() and Domain() are called on route strings of up to
\* MaxLen tokens.  On a string with no separator Domain() indexes a piece
\* that does not exist and panics.
MaxLen == 5

RouteEntries == UNION {[1..n -> {"a", "b", Dot}] : n \in 0..MaxLen}

Call_HostDomain ==
    /\ \E r \in RouteEntries :
          last' = [op |-> "RouteEntry", route |-> r, host |-> Host(r),
                   domain |-> IF Len(SplitN(r)) >= 2
                              THEN [panic |-> FALSE, value |-> Domain(r)]
                              ELSE [panic |-> TRUE, value |-> <<>>]]
    /\ UNCHANGED <<cache, detectorVars>>

InitRoute ==
    /\ cache = NewCache
    /\ last = NoCall
    /\ NoDetector

NextRoute == Call_HostDomain

SpecRoute == InitRoute /\ [][NextRoute]_vars

\* SpecClient: the owner of a cache calls Refresh again and again while
\* the hours pass between the calls, starting with the cache and the
\* client that NewCFResourceCache has just made.
MaxHours == 10

TimePasses ==
    /\ pc["main"] = "caller"
    /\ now < MaxHours * Hour
    /\ now' = now + Hour
    /\ UNCHANGED <<cache, last, config, platform, metrics, pc, rtask, vtask, tick, iter,
                   clientCreatedAt>>

\* `last` notes whether the call fetched again, with success, a collection
\* that an earlier call had filled and a later one had marked invalid.
Call_Refresh ==
    /\ pc["main"] = "caller"
    /\ \E made \in newCFClient : Refresh_Whole("main", made)
    /\ last' = [op |-> "Refresh",
                recovered |-> \E coll \in Collections :
                                 /\ ~cache[coll].Valid
                                 /\ Items(coll, cache[coll]) # <<>>
                                 /\ cache'[coll].Valid]
    /\ UNCHANGED <<config, platform, metrics, vtask, tick, iter, now>>

Return_Refresh ==
    /\ pc["main"] = "Refresh"
    /\ pc' = [pc EXCEPT !["main"] = "caller"]
    /\ rtask' = [rtask EXCEPT !["main"] = [coll \in Collections |-> "idle"]]
    /\ UNCHANGED <<cache, last, config, platform, metrics, vtask, tick, iter, now,
                   clientCreatedAt>>

InitClient ==
    /\ cache = NewCache
    /\ last = NoCall
    /\ config = ConfigRequiredWeb
    /\ platform = PlatformBare
    /\ metrics = ZeroMetrics
    /\ pc = [main |-> "caller", loop |-> "none"]
    /\ rtask = [t \in Threads |-> [coll \in Collections |-> "idle"]]
    /\ vtask = [t \in Threads |-> [check \in Checks |-> "idle"]]
    /\ tick = FALSE
    /\ iter = 0
    /\ now = 0
    /\ clientCreatedAt = 0

NextClient ==
    \/ TimePasses
    \/ Call_Refresh
    \/ Return_Refresh

SpecClient == InitClient /\ [][NextClient]_vars

\* SpecRefresh: the owner of a cache calls Refresh again and again while
\* what is deployed changes between the calls; the client never ages.
Redeploy ==
    /\ pc["main"] = "caller"
    /\ platform' \in {PlatformDeployed, PlatformRescaled} \ {platform}
    /\ UNCHANGED <<cache, last, config, metrics, pc, rtask, vtask, tick, iter, now,
                   clientCreatedAt>>

InitRefresh ==
    /\ cache = NewCache
    /\ last = NoCall
    /\ config = ConfigRequiredWeb
    /\ platform = PlatformDeployed
    /\ metrics = ZeroMetrics
    /\ pc = [main |-> "caller", loop |-> "none"]
    /\ rtask = [t \in Threads |-> [coll \in Collections |-> "idle"]]
    /\ vtask = [t \in Threads |-> [check \in Checks |-> "idle"]]
    /\ tick = FALSE
    /\ iter = 0
    /\ now = 0
    /\ clientCreatedAt = 0

NextRefresh ==
    \/ Redeploy
    \/ Call_Refresh
    \/ Return_Refresh

SpecRefresh == InitRefresh /\ [][NextRefresh]_vars

----------------------------------------------------------------------------
(* Claims about the cache                                                  *)

\* The sub-caches that keep a name index besides the GUID index.
NamedCollections == {"Apps", "Domains", "SharedDomains", "Spaces"}

GuidField(coll) == IF coll = "Apps" THEN "GUID" ELSE "Guid"

\* items, byGUID and byName of a sub-cache.
Contents(coll, c) ==
    IF coll \in NamedCollections
    THEN <<Items(coll, c), c.guidMap, c.nameMap>>
    ELSE <<Items(coll, c), c.guidMap>>

\* `m` indexes exactly the elements of `list` by `field`.
IndexOf(m, list, field) ==
    /\ DOMAIN m = {list[i][field] : i \in 1..Len(list)}
    /\ \A k \in DOMAIN m : \E i \in 1..Len(list) : list[i] = m[k] /\ list[i][field] = k

\* C1: a refresh whose list call fails leaves items, the GUID index and the
\* name index of its collection as they were and sets valid to false; a
\* refresh whose list call succeeds leaves the collection holding exactly the
\* fetched list, indexed by GUID and by name, and valid.
C1_RefreshFailureKeepsSuccessReplaces ==
    /\ [](last.op = "refresh" /\ ~last.err =>
            LET c == cache[last.coll] IN
            /\ c.Valid
            /\ Items(last.coll, c) = last.resourceList
            /\ IndexOf(c.guidMap, last.resourceList, GuidField(last.coll))
            /\ last.coll \in NamedCollections =>
                   IndexOf(c.nameMap, last.resourceList, "Name"))
    /\ [][last'.op = "refresh" /\ last'.err =>
            /\ ~cache'[last'.coll].Valid
            /\ Contents(last'.coll, cache'[last'.coll])
                   = Contents(last'.coll, cache[last'.coll])]_vars

\* A failed refresh of a collection that an earlier refresh had filled.
C1_Witness ==
    /\ last.op = "refresh"
    /\ last.err
    /\ Items(last.coll, cache[last.coll]) # <<>>
    /\ last.coll = "Apps"

\* C4: isValid() is true exactly when all six valid flags are true, and a
\* call of it changes nothing in the cache.
C4_IsValidIsConjunction ==
    /\ [](last.op = "isValid" =>
            (last.res <=> \A coll \in Collections : cache[coll].Valid))
    /\ [][last'.op = "isValid" => cache' = cache]_vars

\* isValid() answered false with exactly one flag false, the Spaces one.
C4_Witness ==
    /\ last.op = "isValid"
    /\ ~last.res
    /\ {coll \in Collections : ~cache[coll].Valid} = {"Spaces"}

\* The names under which domain GUID `guid` is cached, shared or private.
DomainNamesOf(guid) ==
    {cache.SharedDomains.domains[i].Name :
        i \in {j \in 1..Len(cache.SharedDomains.domains) :
                  cache.SharedDomains.domains[j].Guid = guid}}
    \cup
    {cache.Domains.domains[i].Name :
        i \in {j \in 1..Len(cache.Domains.domains) :
                  cache.Domains.domains[j].Guid = guid}}

\* C5: findRouteByURL(h, d) finds nothing when no cached route has host h
\* or when no cached route with host h has a domain named d, and otherwise
\* returns a route with host h whose domain, shared or private, is named d.
C5_FindRouteByURL ==
    last.op = "findRouteByURL" =>
        LET routes == cache.Routes.routes
            matching == {i \in 1..Len(routes) :
                            /\ routes[i].Host = last.host
                            /\ last.domain \in DomainNamesOf(routes[i].DomainGuid)}
        IN  /\ matching = {} => ~last.res.found
            /\ matching # {} =>
                   /\ last.res.found
                   /\ last.res.route \in {routes[i] : i \in matching}

\* C6: findRouteByURL never returns a route whose domain GUID is in neither
\* domain collection.
C6_OrphanedRouteNeverReturned ==
    last.op = "findRouteByURL" /\ last.res.found =>
        DomainNamesOf(last.res.route.DomainGuid) # {}

\* The elements of `list` whose `field` is `k`.
Having(list, field, k) == {list[i] : i \in {j \in 1..Len(list) : list[j][field] = k}}

\* C7: getMappingResources fails at the first missing link, in the order
\* RouteMapping, Route, Domain, App, with an error naming that link and no
\* partial result; with all four links present it returns the mapped app,
\* the mapped route and that route's domain name.
C7_GetMappingResources ==
    last.op = "getMappingResources" =>
        LET res == last.res
            mappings == Having(cache.RouteMappings.routeMappings, "Guid", last.mappingGUID)
            mapping == CHOOSE m \in mappings : TRUE
            routes == Having(cache.Routes.routes, "Guid", mapping.RouteGUID)
            route == CHOOSE r \in routes : TRUE
            names == DomainNamesOf(route.DomainGuid)
            apps == Having(cache.Apps.apps, "GUID", mapping.AppGUID)
            nothing == res.app = ZeroApp /\ res.route = ZeroRoute /\ res.domainName = <<>>
        IN  IF mappings = {}
            THEN res.err = NotFound("RouteMapping", last.mappingGUID) /\ nothing
            ELSE IF routes = {}
            THEN res.err = NotFound("Route", mapping.RouteGUID) /\ nothing
            ELSE IF names = {}
            THEN res.err = NotFound("Domain", route.DomainGuid) /\ nothing
            ELSE IF apps = {}
            THEN res.err = NotFound("App", mapping.AppGUID) /\ nothing
            ELSE /\ res.err = NoError
                 /\ res.app \in apps
                 /\ res.route = route
                 /\ res.domainName \in names

\* The mapping's route is cached but both its domain and its app are
\* missing, and the error names the domain.
C7_Witness ==
    /\ last.op = "getMappingResources"
    /\ last.res.err.link = "Domain"
    /\ LET mapping == cache.RouteMappings.guidMap[last.mappingGUID]
       IN  Having(cache.Apps.apps, "GUID", mapping.AppGUID) = {}

\* C8: findDomainNameByGUID returns the shared domain's name when the GUID
\* is in the shared collection, otherwise the private domain's name when it
\* is in the private collection, otherwise not-found.
C8_FindDomainNameByGUID ==
    last.op = "findDomainNameByGUID" =>
        LET shared == Having(cache.SharedDomains.domains, "Guid", last.guid)
            private == Having(cache.Domains.domains, "Guid", last.guid)
        IN  IF shared # {}
            THEN last.res.found /\ last.res.name \in {d.Name : d \in shared}
            ELSE IF private # {}
            THEN last.res.found /\ last.res.name \in {d.Name : d \in private}
            ELSE ~last.res.found /\ last.res.name = <<>>

\* The GUID is in both collections under different names and the shared
\* name is returned.
C8_Witness ==
    /\ last.op = "findDomainNameByGUID"
    /\ \E s \in Having(cache.SharedDomains.domains, "Guid", last.guid),
          p \in Having(cache.Domains.domains, "Guid", last.guid) :
           s.Name # p.Name /\ last.res.name = s.Name

----------------------------------------------------------------------------
(* Claims about the detector                                               *)

\* C2: Refresh returns only after its six refresh goroutines have finished:
\* in the step in which Refresh returns to its caller, none of them is
\* still running and every collection either holds the fetched list and is
\* valid or is marked invalid.
C2_RefreshIsBarrier ==
    [][\A t \in Threads :
          (pc[t] = "Refresh" /\ pc'[t] = "Validate") =>
              \A coll \in Collections :
                  \/ /\ rtask[t][coll] = "ok"
                     /\ cache[coll].Valid
                     /\ Items(coll, cache[coll]) = platform[coll]
                  \/ /\ rtask[t][coll] = "failed"
                     /\ ~cache[coll].Valid]_vars

\* The loop's Refresh has returned with a mix of outcomes: apps fetched,
\* routes failed and still holding the list of the earlier Refresh.
C2_Witness ==
    /\ pc["loop"] = "Validate"
    /\ cache.Apps.Valid
    /\ ~cache.Routes.Valid
    /\ cache.Routes.routes # <<>>
    /\ \A coll \in Collections : rtask["loop"][coll] = "idle"

\* C3: while a validation goroutine is active no refresh goroutine is
\* active, NewDetector's Refresh and Validate are over before the loop
\* exists, and the two callers are never inside Refresh or Validate at the
\* same time.
C3_ValidateNeverOverlapsRefresh ==
    /\ (\E t \in Threads, check \in Checks : vtask[t][check] = "running")
          => (\A t \in Threads, coll \in Collections : rtask[t][coll] # "running")
    /\ pc["main"] \in {"NewDetector", "Refresh", "Validate"} => pc["loop"] = "none"
    /\ \A t \in Threads :
          (\E check \in Checks : vtask[t][check] = "running") => pc[t] = "Validate"
    /\ \A t \in Threads :
          (\E coll \in Collections : rtask[t][coll] = "running") => pc[t] = "Refresh"

\* The loop's Validate pass is half done while the next tick is waiting.
C3_Witness ==
    /\ pc["loop"] = "Validate"
    /\ tick
    /\ \E check \in Checks : vtask["loop"][check] = "running"
    /\ \E check \in Checks : vtask["loop"][check] = "done"

\* The names of the deployed apps, from the cached items.
DeployedAppNames == {cache.Apps.apps[i].Name : i \in 1..Len(cache.Apps.apps)}

\* The entries of the configuration file's app list.
ConfiguredApps == {config.Data.AppConfig.Apps[i] : i \in 1..Len(config.Data.AppConfig.Apps)}

\* C9: once validateApps has run on a valid App collection, the unknown-apps
\* gauge is the number of deployed app names that are not configured and
\* the missing-apps gauge is the number of configured non-optional apps that
\* are not deployed; in particular with web and api deployed and web
\* required, batch optional in the config, one app is unknown, none missing.
C9_ValidateAppsGauges ==
    \A t \in Threads :
        (vtask[t]["validateApps"] = "done" /\ cache.Apps.Valid) =>
            /\ metrics.totalUnknownApps =
                  Cardinality(DeployedAppNames \ {a.Name : a \in ConfiguredApps})
            /\ metrics.totalMissingApps =
                  Cardinality({a.Name : a \in {b \in ConfiguredApps : ~b.Optional}}
                              \ DeployedAppNames)
            /\ (DeployedAppNames = {"web", "api"} /\ config = ConfigRequiredWeb) =>
                  metrics.totalUnknownApps = 1 /\ metrics.totalMissingApps = 0

\* validateApps has run against web and api deployed, with the optional
\* app batch configured and not deployed.
C9_Witness ==
    /\ vtask["main"]["validateApps"] = "done"
    /\ cache.Apps.Valid
    /\ DeployedAppNames = {"web", "api"}
    /\ config = ConfigRequiredWeb
    /\ metrics.totalUnknownApps = 1
    /\ metrics.totalMissingApps = 0

\* The routes the missing-routes result must list: <<a, i>> is route i of
\* configured app a, where a is non-optional or deployed, the route reads
\* host.domain with a dot-free host, and findRouteByURL finds no route.
ExpectedMissing ==
    {p \in UNION {{<<a, i>> : i \in 1..Len(a.Routes)} : a \in ConfiguredApps} :
        /\ ~p[1].Optional \/ p[1].Name \in DeployedAppNames
        /\ \E k \in 1..Len(p[1].Routes[p[2]]) :
              LET route == p[1].Routes[p[2]]
                  host == SubSeq(route, 1, k - 1)
                  domain == SubSeq(route, k + 1, Len(route))
              IN  /\ route[k] = Dot
                  /\ \A j \in 1..(k - 1) : route[j] # Dot
                  /\ ~findRouteByURL(cache, host, domain).found}

MissingEntry(p) == <<p[1].Name, ":">> \o p[1].Routes[p[2]]

\* C10: once validateAppRoutes has run with all six collections valid, the
\* missing-routes result lists app:host.domain once for each configured
\* route of a non-optional or deployed app that findRouteByURL does not
\* find, lists nothing else, and the gauge is its length; with app web,
\* route web.apps.example and no deployed route the result is exactly
\* web:web.apps.example.
C10_MissingRoutesExactly ==
    \A t \in Threads :
        (vtask[t]["validateAppRoutes"] = "done" /\ \A coll \in Collections : cache[coll].Valid) =>
            LET res == getMissingRoutes(cache, config) IN
            /\ \A e \in {res[k] : k \in 1..Len(res)} \cup {MissingEntry(p) : p \in ExpectedMissing} :
                  Cardinality({k \in 1..Len(res) : res[k] = e})
                      = Cardinality({p \in ExpectedMissing : MissingEntry(p) = e})
            /\ metrics.totalMissingRoutes = Cardinality(ExpectedMissing)
            /\ (config = ConfigRequiredWeb /\ cache.Routes.routes = <<>>) =>
                  res = << <<"web", ":", "web", Dot, "apps", Dot, "example">> >>

\* validateAppRoutes has run with nothing deployed: web is required and its
\* route is missing, batch is optional and absent.
C10_Witness ==
    /\ vtask["main"]["validateAppRoutes"] = "done"
    /\ \A coll \in Collections : cache[coll].Valid
    /\ config = ConfigRequiredWeb
    /\ cache.Apps.apps = <<>>
    /\ cache.Routes.routes = <<>>
    /\ metrics.totalMissingRoutes = 1

\* The route mappings the unknown-routes result must list: positions in the
\* cached mapping list whose mapping resolves, to an app that is configured
\* and to a route string that is not among that app's configured routes.
ExpectedUnknown ==
    {i \in 1..Len(cache.RouteMappings.routeMappings) :
        LET res == getMappingResources(cache, cache.RouteMappings.routeMappings[i].Guid) IN
        /\ res.err = NoError
        /\ \E a \in ConfiguredApps :
              /\ a.Name = res.app.Name
              /\ \A j \in 1..Len(a.Routes) :
                    a.Routes[j] # res.route.Host \o <<Dot>> \o res.domainName}

UnknownEntry(i) ==
    LET res == getMappingResources(cache, cache.RouteMappings.routeMappings[i].Guid)
    IN  <<res.app.Name, ":">> \o res.route.Host \o <<Dot>> \o res.domainName

\* C11: once validateAppRoutes has run with all six collections valid, the
\* unknown-routes result lists app:host.domain once for each route mapping
\* that resolves to a configured app and to a route string that is not in
\* the app's configured routes, lists nothing for a mapping that does not
\* resolve or whose app is not configured, and the gauge is its length.
C11_UnknownRoutesExactly ==
    \A t \in Threads :
        (vtask[t]["validateAppRoutes"] = "done" /\ \A coll \in Collections : cache[coll].Valid) =>
            LET res == getUnknownRoutes(cache, config) IN
            /\ \A e \in {res[k] : k \in 1..Len(res)} \cup {UnknownEntry(i) : i \in ExpectedUnknown} :
                  Cardinality({k \in 1..Len(res) : res[k] = e})
                      = Cardinality({i \in ExpectedUnknown : UnknownEntry(i) = e})
            /\ metrics.totalUnknownRoutes = Cardinality(ExpectedUnknown)

\* validateAppRoutes has run on four mappings: two resolve to configured
\* apps and to routes that are not configured, two do not resolve.
C11_Witness ==
    /\ vtask["main"]["validateAppRoutes"] = "done"
    /\ \A coll \in Collections : cache[coll].Valid
    /\ config = ConfigOptionalWeb
    /\ Len(cache.RouteMappings.routeMappings) = 4
    /\ metrics.totalUnknownRoutes = 2
    /\ getUnknownRoutes(cache, config) =
          << <<"web", ":", "web", Dot, "apps", Dot, "example">>,
             <<"api", ":", "web", Dot, "shared", Dot, "example">> >>

\* The configured apps validateAppSSH must flag: those deployed whose
\* configured ssh_disabled contradicts the SSH status observed.
ExpectedAppSSHViolations ==
    {a \in ConfiguredApps :
        \E i \in 1..Len(cache.Apps.apps) :
            /\ cache.Apps.apps[i].Name = a.Name
            /\ \/ a.SSHDisabled /\ cache.Apps.apps[i].SSHEnabled
               \/ ~a.SSHDisabled /\ ~cache.Apps.apps[i].SSHEnabled}

\* C12: once validateAppSSH has run on a valid App collection, the app-SSH
\* gauge is the number of configured apps that are deployed and whose
\* desired SSH state differs from the observed one (ssh_disabled set and SSH
\* enabled, or ssh_disabled unset and SSH disabled); a configured app that
\* is not deployed is not among them.
C12_AppSSHViolations ==
    \A t \in Threads :
        (vtask[t]["validateAppSSH"] = "done" /\ cache.Apps.Valid) =>
            /\ metrics.totalAppSSHViolations = Cardinality(ExpectedAppSSHViolations)
            /\ \A a \in ExpectedAppSSHViolations : a.Name \in DeployedAppNames

\* validateAppSSH has run with web (ssh_disabled, SSH enabled) and api
\* (ssh_disabled unset, SSH disabled) flagged and cron, not deployed, not.
C12_Witness ==
    /\ vtask["main"]["validateAppSSH"] = "done"
    /\ cache.Apps.Valid
    /\ config = ConfigOptionalWeb
    /\ DeployedAppNames = {"web", "api"}
    /\ {a.Name : a \in ExpectedAppSSHViolations} = {"web", "api"}
    /\ metrics.totalAppSSHViolations = 2

\* The names of the deployed spaces, from the cached items.
DeployedSpaceNames == {cache.Spaces.spaces[i].Name : i \in 1..Len(cache.Spaces.spaces)}

\* The entries of the configuration file's space list.
ConfiguredSpaces ==
    {config.Data.SpaceConfig.Spaces[i] : i \in 1..Len(config.Data.SpaceConfig.Spaces)}

\* The deployed space names that are configured with another allow_ssh.
ExpectedSpaceViolations ==
    {name \in DeployedSpaceNames :
        \E i \in 1..Len(cache.Spaces.spaces), e \in ConfiguredSpaces :
            /\ cache.Spaces.spaces[i].Name = name
            /\ e.Name = name
            /\ cache.Spaces.spaces[i].AllowSSH # e.AllowSSH}

\* C13: once validateSpaces has run on a valid Space collection, the
\* space-SSH gauge is the number of deployed space names configured with a
\* different allow_ssh value; deployed spaces that are not configured and
\* configured spaces that are not deployed are not counted.
C13_SpaceSSHViolations ==
    \A t \in Threads :
        (vtask[t]["validateSpaces"] = "done" /\ cache.Spaces.Valid) =>
            /\ metrics.totalSpaceSSHViolations = Cardinality(ExpectedSpaceViolations)
            /\ ExpectedSpaceViolations \subseteq
                  DeployedSpaceNames \cap {e.Name : e \in ConfiguredSpaces}

\* validateSpaces has run with dev deployed allowing SSH and configured not
\* to, sandbox deployed and not configured, prod configured and not
\* deployed: one violation.
C13_Witness ==
    /\ vtask["main"]["validateSpaces"] = "done"
    /\ cache.Spaces.Valid
    /\ DeployedSpaceNames = {"dev", "sandbox"}
    /\ {e.Name : e \in ConfiguredSpaces} = {"dev", "prod"}
    /\ metrics.totalSpaceSSHViolations = 1

\* The two counters of each check's category.
SuccessCounter ==
    [validateApps |-> "successfulAppChecks", validateAppRoutes |-> "successfulRouteChecks",
     validateAppSSH |-> "successfulAppSSHChecks", validateSpaces |-> "successfulSpaceChecks"]

FailedCounter ==
    [validateApps |-> "failedAppChecks", validateAppRoutes |-> "failedRouteChecks",
     validateAppSSH |-> "failedAppSSHChecks", validateSpaces |-> "failedSpaceChecks"]

Counters == {SuccessCounter[check] : check \in Checks} \cup {FailedCounter[check] : check \in Checks}

\* The collections a check needs valid to compute its result.
Needs ==
    [validateApps |-> {"Apps"}, validateAppRoutes |-> Collections,
     validateAppSSH |-> {"Apps"}, validateSpaces |-> {"Spaces"}]

Computes(check) == \A coll \in Needs[check] : cache[coll].Valid

\* Validate passes that have returned, and runs of `check` so far.
PassesReturned ==
    (IF pc["main"] = "returned" THEN 1 ELSE 0)
    + (CASE pc["loop"] \in {"Refresh", "Validate"} -> iter - 1
         [] pc["loop"] = "ticker" -> iter
         [] OTHER -> 0)

RunsOf(check) == PassesReturned + Cardinality({t \in Threads : vtask[t][check] = "done"})

\* C14: a run of a check adds one to the success counter of its category
\* when it computes its result and one to the failed counter when it skips,
\* and changes no other counter; no step lowers a counter; so the two
\* counters of an enabled category add up to the number of runs of its
\* check, which is n once n Validate passes have returned.
C14_OneCounterPerRun ==
    /\ [][\A t \in Threads, check \in Checks :
             (vtask[t][check] = "running" /\ vtask'[t][check] = "done") =>
                 /\ metrics'[SuccessCounter[check]] =
                       metrics[SuccessCounter[check]] + (IF Computes(check) THEN 1 ELSE 0)
                 /\ metrics'[FailedCounter[check]] =
                       metrics[FailedCounter[check]] + (IF Computes(check) THEN 0 ELSE 1)
                 /\ \A k \in Counters \ {SuccessCounter[check], FailedCounter[check]} :
                       metrics'[k] = metrics[k]]_vars
    /\ [][\A k \in Counters : metrics'[k] >= metrics[k]]_vars
    /\ [](pc["main"] # "exited" =>
             \A check \in enabledValidationFunctions(config) :
                 metrics[SuccessCounter[check]] + metrics[FailedCounter[check]] = RunsOf(check))

\* Two passes have returned; the route check ran once and skipped once,
\* the app check ran twice.
C14_Witness ==
    /\ pc = [main |-> "returned", loop |-> "ticker"]
    /\ iter = 1
    /\ metrics.successfulRouteChecks = 1
    /\ metrics.failedRouteChecks = 1
    /\ metrics.successfulAppChecks = 2
    /\ metrics.failedAppChecks = 0

\* The checks of each category and the metrics each category exports.
AppChecks == {"validateApps", "validateAppRoutes", "validateAppSSH"}

SpaceChecks == {"validateSpaces"}

AppMetrics ==
    {"failedAppChecks", "successfulAppChecks", "failedRouteChecks", "successfulRouteChecks",
     "failedAppSSHChecks", "successfulAppSSHChecks", "totalUnknownApps", "totalMissingApps",
     "totalUnknownRoutes", "totalMissingRoutes", "totalAppSSHViolations"}

SpaceMetrics == {"failedSpaceChecks", "successfulSpaceChecks", "totalSpaceSSHViolations"}

\* The checks a Validate call has to run under the current config.
ChecksToRun ==
    {check \in AppChecks : config.Data.AppConfig.Enabled}
    \cup {check \in SpaceChecks : config.Data.SpaceConfig.Enabled}

\* C15: a Validate call starts exactly the three app checks when apps are
\* enabled and validateSpaces when spaces are enabled, and returns only
\* when each of them has finished; a check of a disabled category never
\* runs and the metrics of a disabled category stay zero.
C15_EnabledChecksOnly ==
    /\ [][\A t \in Threads :
             (pc[t] # "Validate" /\ pc'[t] = "Validate") =>
                 {check \in Checks : vtask'[t][check] = "running"} = ChecksToRun]_vars
    /\ [][\A t \in Threads :
             (pc[t] = "Validate" /\ pc'[t] # "Validate") =>
                 {check \in Checks : vtask[t][check] = "done"} = ChecksToRun]_vars
    /\ [](\A t \in Threads, check \in Checks \ ChecksToRun : vtask[t][check] = "idle")
    /\ [](~config.Data.AppConfig.Enabled => \A k \in AppMetrics : metrics[k] = 0)
    /\ [](~config.Data.SpaceConfig.Enabled => \A k \in SpaceMetrics : metrics[k] = 0)

\* Two passes have returned with apps disabled: the space check ran twice
\* and no app metric moved although apps are deployed and configured.
C15_Witness ==
    /\ ~config.Data.AppConfig.Enabled
    /\ config.Data.SpaceConfig.Enabled
    /\ Len(config.Data.AppConfig.Apps) > 0
    /\ pc = [main |-> "returned", loop |-> "ticker"]
    /\ iter = 1
    /\ cache.Apps.Valid /\ cache.Apps.apps # <<>>
    /\ metrics.successfulSpaceChecks + metrics.failedSpaceChecks = 2
    /\ \A k \in AppMetrics : metrics[k] = 0

\* The gauges each check publishes, with the values it has to publish for
\* the current cache and config.
GaugesToPublish ==
    [validateApps |->
        [totalUnknownApps |-> Cardinality(DeployedAppNames \ {a.Name : a \in ConfiguredApps}),
         totalMissingApps |->
            Cardinality({a.Name : a \in {b \in ConfiguredApps : ~b.Optional}} \ DeployedAppNames)],
     validateAppRoutes |->
        [totalUnknownRoutes |-> Cardinality(ExpectedUnknown),
         totalMissingRoutes |-> Cardinality(ExpectedMissing)],
     validateAppSSH |-> [totalAppSSHViolations |-> Cardinality(ExpectedAppSSHViolations)],
     validateSpaces |-> [totalSpaceSSHViolations |-> Cardinality(ExpectedSpaceViolations)]]

Gauges == UNION {DOMAIN GaugesToPublish[check] : check \in Checks}

\* C16: whatever the six valid flags are, a run of validateApps or of
\* validateAppSSH publishes its gauges exactly when the App collection is
\* valid, a run of validateSpaces exactly when the Space collection is
\* valid and a run of validateAppRoutes exactly when all six collections
\* are valid; a run that does not publish leaves its gauges as they were,
\* and no run touches the gauges of another check.  A run that publishes
\* counts a success; the value validateAppSSH publishes is C12's subject.
C16_ChecksSkipIndependently ==
    [][\A t \in Threads, check \in Checks :
          (vtask[t][check] = "running" /\ vtask'[t][check] = "done") =>
              /\ Computes(check) =>
                    /\ check # "validateAppSSH" =>
                          \A g \in DOMAIN GaugesToPublish[check] :
                              metrics'[g] = GaugesToPublish[check][g]
                    /\ metrics'[SuccessCounter[check]] = metrics[SuccessCounter[check]] + 1
              /\ ~Computes(check) =>
                    /\ \A g \in DOMAIN GaugesToPublish[check] : metrics'[g] = metrics[g]
                    /\ metrics'[SuccessCounter[check]] = metrics[SuccessCounter[check]]
              /\ \A g \in Gauges \ DOMAIN GaugesToPublish[check] :
                    metrics'[g] = metrics[g]]_vars

\* A pass is over in which only the route collection was invalid: the
\* route check skipped, the three other checks published.
C16_Witness ==
    /\ pc["main"] = "Validate"
    /\ \A check \in Checks : vtask["main"][check] = "done"
    /\ {coll \in Collections : ~cache[coll].Valid} = {"Routes"}
    /\ metrics.failedRouteChecks = 1
    /\ metrics.successfulAppChecks = 1
    /\ metrics.successfulAppSSHChecks = 1
    /\ metrics.successfulSpaceChecks = 1
    /\ metrics.totalUnknownApps = 1

\* C17: when Validate is called twice in a row, the second call adds to
\* every counter what the first call added and leaves every gauge with
\* the value the first call left.
C17_ValidateTwice ==
    (pc["main"] = "caller" /\ last.op = "Validate" /\ last.n >= 2) =>
        /\ \A k \in Counters : metrics[k] - last.before[k] = last.before[k] - last.earlier[k]
        /\ \A g \in Gauges : metrics[g] = last.before[g]

\* The second of two calls has returned, with all four checks enabled:
\* the app check published non-zero gauges twice, the route check skipped
\* twice.
C17_Witness ==
    /\ pc["main"] = "caller"
    /\ last.op = "Validate" /\ last.n = 2
    /\ enabledValidationFunctions(config) = Checks
    /\ metrics.successfulAppChecks = 2
    /\ metrics.failedRouteChecks = 2
    /\ metrics.totalUnknownApps = 1
    /\ last.before.totalUnknownApps = 1

\* C18: NewDetector runs the first Refresh and then one whole Validate pass
\* itself: while it is in either, no loop exists; it enters Validate only
\* after every refresh goroutine has finished; it returns, and the loop
\* starts, only in a step in which every enabled check has finished; so
\* once it has returned every enabled category has counted a first run and
\* its metrics are no longer the zero values of a detector that never ran.
C18_FirstPassBeforeLoop ==
    /\ [](pc["main"] \in {"NewDetector", "Refresh", "Validate"} =>
             /\ pc["loop"] = "none"
             /\ tick = FALSE /\ iter = 0)
    /\ [](pc["main"] = "Validate" =>
             \A coll \in Collections : rtask["main"][coll] # "running")
    /\ [][(pc["loop"]' # "none" /\ pc["loop"] = "none" /\ pc["main"]' # "exited") =>
             /\ pc["main"] = "Validate" /\ pc["main"]' = "returned"
             /\ \A check \in ChecksToRun : vtask["main"][check] = "done"]_vars
    /\ [](pc["main"] = "returned" =>
             /\ \A check \in ChecksToRun :
                   metrics[SuccessCounter[check]] + metrics[FailedCounter[check]] >= 1
             /\ metrics # ZeroMetrics)

\* NewDetector has just returned: the loop waits for its first tick and the
\* first pass has counted, the route check as skipped.
C18_Witness ==
    /\ pc = [main |-> "returned", loop |-> "ticker"]
    /\ iter = 0 /\ tick = FALSE
    /\ metrics.successfulAppChecks = 1
    /\ metrics.failedRouteChecks = 1
    /\ metrics.successfulSpaceChecks = 1

\* C19: once NewDetector has returned, nothing that fails inside the loop
\* ends the process: the process ends, if ever, before the loop has begun
\* an iteration and before any check has run.
C19_LoopNeverEndsProcess ==
    pc["main"] = "exited" => iter = 0 /\ metrics = ZeroMetrics

\* C20: a Refresh call re-creates the client exactly when the client is
\* more than eight hours old.  When it does, either the re-creation fails
\* and the process ends with no collection fetched, or the creation time
\* becomes the time of the call; when it does not, the client and its
\* creation time stay, so a call within eight hours of a re-creation
\* reuses the client.
C20_ClientRecreatedWhenAged ==
    /\ [](clientCreatedAt <= now)
    /\ [][pc["main"] = "caller" /\ pc'["main"] # "caller" =>
            IF now - clientCreatedAt > clientAgeLimitHours * Hour
            THEN \/ /\ pc'["main"] = "exited"
                    /\ cache' = cache
                    /\ clientCreatedAt' = clientCreatedAt
                 \/ /\ pc'["main"] = "Refresh"
                    /\ clientCreatedAt' = now
            ELSE /\ pc'["main"] = "Refresh"
                 /\ clientCreatedAt' = clientCreatedAt]_vars

\* A Refresh re-created the client, and the Refresh that has just returned,
\* called within eight hours of that, did not.
C20_Witness ==
    /\ pc["main"] = "Refresh"
    /\ clientCreatedAt > clientAgeLimitHours * Hour
    /\ clientCreatedAt < now

\* C21: a Refresh call fetches each of the six collections whatever its
\* valid flag was: after the call each flag is the outcome of this call's
\* fetch, and the items are the list just fetched when the fetch succeeded
\* and the items held before the call when it failed; before the first
\* call every collection is empty and invalid.
C21_FetchFailureNotSticky ==
    /\ [](last = NoCall =>
            \A coll \in Collections :
                ~cache[coll].Valid /\ Items(coll, cache[coll]) = <<>>)
    /\ [][pc["main"] = "caller" /\ pc'["main"] = "Refresh" =>
            \A coll \in Collections :
                \/ /\ rtask'["main"][coll] = "ok"
                   /\ cache'[coll].Valid
                   /\ Items(coll, cache'[coll]) = platform[coll]
                   /\ IndexOf(cache'[coll].guidMap, platform[coll], GuidField(coll))
                \/ /\ rtask'["main"][coll] = "failed"
                   /\ ~cache'[coll].Valid
                   /\ Contents(coll, cache'[coll]) = Contents(coll, cache[coll])]_vars

\* The Refresh that has just returned fetched the new app list into a
\* collection that held the old list and was marked invalid, while the
\* fetch of the spaces failed and left the old list.
C21_Witness ==
    /\ pc["main"] = "Refresh"
    /\ last.op = "Refresh"
    /\ last.recovered
    /\ platform = PlatformRescaled
    /\ cache.Apps.Valid
    /\ cache.Apps.apps = PlatformRescaled.Apps
    /\ ~cache.Spaces.Valid
    /\ cache.Spaces.spaces = PlatformDeployed.Spaces

\* What the cache shares: the client handle and the six collections.
SharedByCache == {"client"} \cup Collections

C24_HostDomainSplitAtFirstDot ==
    (last.op = "RouteEntry" /\ \E i \in 1..Len(last.route) : last.route[i] = Dot) =>
        LET r == last.route
            first == CHOOSE i \in 1..Len(r) :
                        r[i] = Dot /\ \A j \in 1..(i - 1) : r[j] # Dot
        IN  /\ ~last.domain.panic
            /\ last.host = SubSeq(r, 1, first - 1)
            /\ last.domain.value = SubSeq(r, first + 1, Len(r))
            /\ last.host \o <<Dot>> \o last.domain.value = r
            /\ \A j \in 1..Len(last.host) : last.host[j] # Dot

\* Host() and Domain() of "a.b.a": the domain keeps the second ".".
C24_Witness ==
    /\ last.op = "RouteEntry"
    /\ last.route = <<"a", Dot, "b", Dot, "a">>
    /\ last.host = <<"a">>
    /\ last.domain.value = <<"b", Dot, "a">>

\* The last element of `list` whose `field` is k.
LastWith(list, field, k) ==
    list[CHOOSE i \in 1..Len(list) :
            list[i][field] = k /\ \A j \in (i + 1)..Len(list) : list[j][field] # k]

\* C25: in every collection the GUID index has exactly the GUIDs of the
\* items, each mapped to an item with that GUID, and the name index has
\* exactly the names of the items, each mapped to the last item of that
\* name in fetch order; so no index keeps an entry that is not among the
\* items.
C25_IndicesRebuiltFromItems ==
    \A coll \in Collections :
        LET c == cache[coll]
            list == Items(coll, c)
        IN  /\ IndexOf(c.guidMap, list, GuidField(coll))
            /\ coll \in NamedCollections =>
                   /\ DOMAIN c.nameMap = {list[i].Name : i \in 1..Len(list)}
                   /\ \A name \in DOMAIN c.nameMap :
                          c.nameMap[name] = LastWith(list, "Name", name)

\* The Refresh that has just returned fetched two apps named web after an
\* earlier Refresh had fetched the platform that still had api: the name
\* index holds the second web and no api.
C25_Witness ==
    /\ pc["main"] = "Refresh"
    /\ cache.Apps.Valid
    /\ cache.Apps.apps = PlatformRescaled.Apps
    /\ cache.Apps.nameMap["web"].GUID = "a4"
    /\ "api" \notin DOMAIN cache.Apps.nameMap
    /\ "a2" \notin DOMAIN cache.Apps.guidMap
    /\ cache.Spaces.spaces = PlatformDeployed.Spaces

\* The collections each check reads once it is past its gate: validateApps
\* and validateAppSSH the App collection, validateSpaces the Space
\* collection, validateAppRoutes the apps, routes, route mappings and both
\* kinds of domain.
ReadBy ==
    [validateApps |-> {"Apps"},
     validateAppRoutes |-> {"Apps", "Routes", "RouteMappings", "Domains", "SharedDomains"},
     validateAppSSH |-> {"Apps"},
     validateSpaces |-> {"Spaces"}]

\* C26: when Refresh has returned, a collection is valid exactly when this
\* Refresh fetched it; the cache does not change while Validate runs; and
\* a run of a check that writes its gauges (and counts a success) finds
\* every collection it reads valid and holding what the platform listed.
\* So no gauge is computed from a collection the latest Refresh failed to
\* fetch, whatever refreshes succeeded and failed before.
C26_GaugesFromFreshCollections ==
    /\ [](\A t \in Threads : pc[t] = "Refresh" =>
             \A coll \in Collections : cache[coll].Valid <=> rtask[t][coll] = "ok")
    /\ [][(\E t \in Threads : pc[t] = "Validate") => cache' = cache]_vars
    /\ [][\A t \in Threads, check \in Checks :
             (/\ vtask[t][check] = "running" /\ vtask'[t][check] = "done"
              /\ \/ metrics'[SuccessCounter[check]] # metrics[SuccessCounter[check]]
                 \/ \E g \in DOMAIN GaugesToPublish[check] : metrics'[g] # metrics[g]) =>
                 \A coll \in ReadBy[check] :
                     /\ cache[coll].Valid
                     /\ Items(coll, cache[coll]) = platform[coll]]_vars

\* The loop's pass is over after a Refresh that failed to fetch the spaces
\* and the routes, which the cache still holds from the first Refresh: the
\* space check and the route check published in the first pass only, the
\* app check in both.
C26_Witness ==
    /\ pc["loop"] = "Validate"
    /\ \A check \in Checks : vtask["loop"][check] = "done"
    /\ {coll \in Collections : ~cache[coll].Valid} = {"Routes", "Spaces"}
    /\ cache.Spaces.spaces # <<>> /\ cache.Routes.routes # <<>>
    /\ metrics.successfulSpaceChecks = 1 /\ metrics.failedSpaceChecks = 1
    /\ metrics.successfulRouteChecks = 1 /\ metrics.failedRouteChecks = 1
    /\ metrics.successfulAppChecks = 2
    /\ metrics.successfulAppSSHChecks = 2

\* C27: a run of a check whose gate is false changes nothing of the metrics
\* but its failed counter, which it raises by one; a gauge of a check
\* changes only in a run of that check whose gate is true; and while a
\* check has never succeeded its gauges are zero.  So between two
\* successful runs of a check its gauges keep what the earlier one
\* published, however often it skips in between.
C27_SkippedCheckKeepsGauges ==
    /\ [][\A t \in Threads, check \in Checks :
             (vtask[t][check] = "running" /\ vtask'[t][check] = "done" /\ ~Computes(check)) =>
                 metrics' = Inc(metrics, FailedCounter[check])]_vars
    /\ [][\A check \in Checks :
             (\E g \in DOMAIN GaugesToPublish[check] : metrics'[g] # metrics[g]) =>
                 /\ Computes(check)
                 /\ \E t \in Threads : vtask[t][check] = "running" /\ vtask'[t][check] = "done"
                 /\ metrics'[SuccessCounter[check]] = metrics[SuccessCounter[check]] + 1]_vars
    /\ [](\A check \in Checks :
             metrics[SuccessCounter[check]] = 0 =>
                 \A g \in DOMAIN GaugesToPublish[check] : metrics[g] = 0)

\* The loop's pass is over: the space check published one violation in the
\* first pass and skipped in this one, and the gauge still reads one; the
\* app check skipped in both and its gauges read zero.
C27_Witness ==
    /\ pc["loop"] = "Validate"
    /\ \A check \in Checks : vtask["loop"][check] = "done"
    /\ ~cache.Spaces.Valid /\ ~cache.Apps.Valid
    /\ metrics.successfulSpaceChecks = 1 /\ metrics.failedSpaceChecks = 1
    /\ metrics.totalSpaceSSHViolations = 1
    /\ metrics.successfulAppChecks = 0 /\ metrics.failedAppChecks = 2
    /\ metrics.totalUnknownApps = 0 /\ metrics.totalMissingApps = 0

\* The metrics each check writes: its gauges and its two counters.
WrittenBy(check) ==
    DOMAIN GaugesToPublish[check] \cup {SuccessCounter[check], FailedCounter[check]}

\* C28: a refresh goroutine changes its own collection and nothing else of
\* the cache, the metrics or the client's age, and running it before or
\* after any other goroutine still running gives the same cache; a
\* validation goroutine changes the gauges and counters of its own check,
\* which no other check writes, and neither the cache nor the config, and
\* commutes with every other check still running.  So whatever the order,
\* Refresh leaves the cache that fetching the collections one by one
\* leaves, and Validate the metrics that running the checks one by one
\* leaves.
C28_SubtasksCommute ==
    /\ [][\A t \in Threads, coll \in Collections :
             (rtask[t][coll] = "running" /\ rtask'[t][coll] # "running") =>
                 /\ \A other \in Collections \ {coll} :
                        cache'[other] = cache[other] /\ rtask'[t][other] = rtask[t][other]
                 /\ metrics' = metrics /\ config' = config
                 /\ clientCreatedAt' = clientCreatedAt
                 /\ \E mine \in PlatformListCall(platform, coll) :
                        /\ mine.err = (rtask'[t][coll] = "failed")
                        /\ \A other \in Collections \ {coll} :
                              rtask[t][other] = "running" =>
                                  \A ret \in PlatformListCall(platform, other) :
                                      [cache' EXCEPT ![other] =
                                          SubCacheRefresh(other, @, ret.err, ret.resourceList)]
                                      = [[cache EXCEPT ![other] =
                                            SubCacheRefresh(other, @, ret.err, ret.resourceList)]
                                          EXCEPT ![coll] =
                                            SubCacheRefresh(coll, @, mine.err, mine.resourceList)]]_vars
    /\ [][\A t \in Threads, check \in Checks :
             (vtask[t][check] = "running" /\ vtask'[t][check] = "done") =>
                 /\ \A k \in DOMAIN metrics \ WrittenBy(check) : metrics'[k] = metrics[k]
                 /\ cache' = cache /\ config' = config
                 /\ \A other \in Checks \ {check} :
                        /\ WrittenBy(other) \cap WrittenBy(check) = {}
                        /\ vtask[t][other] = "running" =>
                              RunCheck(other, metrics', cache, config)
                              = RunCheck(check, RunCheck(other, metrics, cache, config),
                                         cache, config)]_vars
    /\ [](pc["loop"] = "Refresh" /\ RefreshWait("loop") =>
             cache = RefreshResult(last.cache, platform,
                                   {coll \in Collections : rtask["loop"][coll] = "failed"}))
    /\ [](pc["loop"] = "Validate" /\ ValidateWait("loop") =>
             metrics = ValidateResult(last.metrics, cache, config))

\* The loop's Validate is under way after a Refresh that fetched the apps
\* and not the routes: the space check has run before the app check, the
\* last-listed before the first-listed.
C28_Witness ==
    /\ pc["loop"] = "Validate"
    /\ vtask["loop"]["validateSpaces"] = "done"
    /\ vtask["loop"]["validateApps"] = "running"
    /\ cache.Apps.Valid /\ ~cache.Routes.Valid
    /\ metrics.successfulSpaceChecks = 2
    /\ metrics.successfulAppChecks = 1
    /\ last.op = "start" /\ last.cache.Routes.Valid

\* Ticks the channel holds.
Pending == IF tick THEN 1 ELSE 0

\* C29: the channel never holds more than one tick, so every tick fired has
\* been received, is the one held, or was dropped; a tick that fires while
\* one is held is dropped, however many fire during an iteration; an
\* iteration starts only from the waiting loop, by taking the held tick,
\* and leaves none behind, so that after an overrun one iteration starts
\* at once and the next one has to wait for a tick yet to fire.
C29_TicksMergeDuringOverrun ==
    /\ [](iter + Pending + last.dropped = last.fired)
    /\ [](last.overrun >= 2 => last.dropped >= last.overrun - 1)
    /\ [][last'.fired # last.fired =>
             /\ tick' /\ iter' = iter
             /\ last'.dropped = last.dropped + Pending]_vars
    /\ [][iter' # iter =>
             /\ iter' = iter + 1
             /\ pc["loop"] = "ticker" /\ tick /\ ~tick'
             /\ last'.fired = last.fired]_vars
    /\ [][~tick /\ tick' => last'.fired = last.fired + 1]_vars

\* The first iteration is over; it began with the first tick and two more
\* fired while it ran, of which the channel holds one.
C29_Witness ==
    /\ pc["loop"] = "ticker"
    /\ iter = 1
    /\ last.fired = 3 /\ last.overrun = 2 /\ last.dropped = 1
    /\ tick

\* C30: a tick the channel holds is followed by a Refresh that has
\* returned, and a Refresh that has returned by a Validate that has
\* returned, the loop waiting for its next tick.
C30_EveryTickServed ==
    /\ tick ~> (pc["loop"] = "Refresh")
    /\ (pc["loop"] = "Refresh") ~> (pc["loop"] = "ticker" /\ vtask["loop"]["validateSpaces"] = "idle")

\* C31: findRouteByURL(h, d) finds a route exactly when some cached route
\* has host h and findDomainNameByGUID resolves its domain GUID to d.
C31_LookupsAgreeOnDomain ==
    last.op = "findRouteByURL" =>
        (last.res.found <=>
            \E i \in 1..Len(cache.Routes.routes) :
                /\ cache.Routes.routes[i].Host = last.host
                /\ findDomainNameByGUID(cache, cache.Routes.routes[i].DomainGuid)
                      = [name |-> last.domain, found |-> TRUE])

\* The cache with its route mappings replaced by a successful fetch of
\* `mappings`.
WithRouteMappings(c, mappings) ==
    [c EXCEPT !.RouteMappings = RouteMappingCacheRefresh(@, FALSE, mappings)]

\* Cached routes with host `host` under a domain named `domain`.
RoutesAt(host, domain) ==
    {r \in {cache.Routes.routes[k] : k \in 1..Len(cache.Routes.routes)} :
        r.Host = host /\ domain \in DomainNamesOf(r.DomainGuid)}

\* App names that route mappings tie to cached route `r`.
AppsMappedTo(r) ==
    {MapGet(cache.Apps.guidMap, m.AppGUID, ZeroApp).Name :
        m \in {mm \in {cache.RouteMappings.routeMappings[k] :
                          k \in 1..Len(cache.RouteMappings.routeMappings)} :
                  mm.RouteGUID = r.Guid}}

\* C32: once validateAppRoutes has run with all six collections valid, the
\* missing-routes result is the one it would be with no route mappings at
\* all or with any other list of them, and a configured route whose host
\* and domain are cached is not in it, whether or not a route mapping ties
\* the cached route to an app of that name.
C32_MissingIgnoresRouteMappings ==
    \A t \in Threads :
        (vtask[t]["validateAppRoutes"] = "done" /\ \A coll \in Collections : cache[coll].Valid) =>
            LET res == getMissingRoutes(cache, config) IN
            /\ metrics.totalMissingRoutes = Len(res)
            /\ \A mappings \in Responses("RouteMappings") \cup {<<>>} :
                  getMissingRoutes(WithRouteMappings(cache, mappings), config) = res
            /\ \A a \in ConfiguredApps : \A i \in 1..Len(a.Routes) :
                  RoutesAt(Host(a.Routes[i]), Domain(a.Routes[i])) # {} =>
                      \A k \in 1..Len(res) : res[k] # MissingEntry(<<a, i>>)

\* validateAppRoutes has run on the deployed platform with web optional:
\* web's route web.corp.example is cached and mapped only to api; the
\* result lists web.dev.example and cron's route and not web.corp.example.
C32_Witness ==
    /\ vtask["main"]["validateAppRoutes"] = "done"
    /\ \A coll \in Collections : cache[coll].Valid
    /\ config = ConfigOptionalWeb
    /\ \E r \in RoutesAt(Web, CorpExample) : AppsMappedTo(r) = {"api"}
    /\ "web" \in DeployedAppNames
    /\ metrics.totalMissingRoutes = 2

\* C33: while a check is running the process is alive, the check is able
\* to take its step and is not about to abort, whether the collections it
\* reads are empty, were never fetched, hold references to GUIDs that are
\* not cached, lack configured apps or spaces or hold ones that are not
\* configured; its step ends it, keeps the process alive, and adds one to
\* its success counter or to its failed counter.
C33_ChecksOnlySkip ==
    /\ [](\A t \in Threads, check \in Checks :
             vtask[t][check] = "running" =>
                 /\ pc[t] = "Validate"
                 /\ ~Panics(check, cache, config)
                 /\ ENABLED Validate_SubTask(t, check))
    /\ [][\A t \in Threads, check \in Checks :
             vtask[t][check] = "running" =>
                 /\ pc' = pc
                 /\ vtask'[t][check] # "running" =>
                       /\ vtask'[t][check] = "done"
                       /\ metrics'[SuccessCounter[check]] + metrics'[FailedCounter[check]]
                             = metrics[SuccessCounter[check]] + metrics[FailedCounter[check]] + 1]_vars

\* All four checks have finished on a valid cache of the deployed
\* platform: a route mapping names a route that is not cached, a route
\* names a domain that is not cached, batch is configured and not
\* deployed, api is deployed and not configured.
C33_Witness ==
    /\ pc["main"] = "Validate"
    /\ \A check \in Checks : vtask["main"][check] = "done"
    /\ \A coll \in Collections : cache[coll].Valid
    /\ config = ConfigRequiredWeb
    /\ getMappingResources(cache, "m3").err = NotFound("Route", "r9")
    /\ getMappingResources(cache, "m4").err = NotFound("Domain", "d3")
    /\ DeployedAppNames = {"web", "api"}
    /\ \A check \in Checks : metrics[SuccessCounter[check]] = 1

\* C34: with a configuration file that loadData accepts, a running
\* validateAppRoutes is in a live process and is not about to abort, also
\* when a configured route has no dot.
C34_RouteCheckFinishesOnAcceptedRoutes ==
    (loadData(FileDotless).err = "nil" /\ config = loadData(FileDotless).conf) =>
        \A t \in Threads :
            vtask[t]["validateAppRoutes"] = "running" =>
                /\ pc[t] = "Validate"
                /\ ~Panics("validateAppRoutes", cache, config)

\* C35: before the first monitor tick the stored status is Healthy; after a
\* tick it is Healthy exactly when that tick asked /metrics and the cloud
\* controller and both requests succeeded; a tick whose /metrics request
\* failed asked nothing else and stored that failure; and /health answers
\* with the status code stored at the time.
C35_HealthFollowsLatestTick ==
    /\ [](pc["main"] = "Serve" =>
             /\ last.ticks = 0 => last.watchtowerHealth = healthyStatus
             /\ last.ticks > 0 =>
                   /\ last.watchtowerHealth = healthyStatus <=> last.gets = <<"ok", "ok">>
                   /\ last.watchtowerHealth.StatusCode = StatusOK
                         <=> last.watchtowerHealth = healthyStatus
                   /\ last.requested[1] = metricsEndpoint(config)
                   /\ last.gets[1] # "ok" =>
                         /\ last.requested = <<metricsEndpoint(config)>>
                         /\ last.watchtowerHealth = getEndpointHealth(last.gets[1])
                         /\ last.watchtowerHealth.StatusCode = StatusInternalServerError
                   /\ last.gets[1] = "ok" =>
                         /\ last.requested = <<metricsEndpoint(config),
                                                cloudControllerInfoEndpoint(config)>>
                         /\ last.watchtowerHealth = getEndpointHealth(last.gets[2]))
    /\ [][last' # last /\ last'.ticks = last.ticks =>
             /\ last'.response = last.watchtowerHealth.StatusCode
             /\ last'.watchtowerHealth = last.watchtowerHealth]_vars

\* Three ticks have passed: an earlier one failed, for /health answered
\* 500, and the latest succeeded in both requests and restored Healthy.
C35_Witness ==
    /\ pc["main"] = "Serve"
    /\ last.ticks = 3
    /\ last.response = StatusInternalServerError
    /\ last.gets = <<"ok", "ok">>
    /\ last.watchtowerHealth = healthyStatus

\* C36: once NewConfigViewer has returned, the first Refresh has completed,
\* and no getter call is answered before it has.
C36_NoGetterBeforeFirstRefresh ==
    /\ pc["main"] = "returned" => last.refreshes >= 1
    /\ last.observed # <<>> => last.observed[1].refreshes >= 1

\* C37: when a Refresh has returned, the slice of every resource whose list
\* call failed has the contents it had when the Refresh began, and the
\* slice of every other resource is the list its call returned.
C37_FailedCallKeepsSlice ==
    pc["loop"] = "ticker" =>
        \A res \in ViewerResources :
            cache[Field[res]] = IF last.err[res] THEN last.viewer[Field[res]]
                                ELSE last.fetched[res]

\* The second Refresh has returned: the call for shared domains failed and
\* the two fetched domains are still there, the call for routes failed too,
\* and the apps were replaced by a list that differs from the one before.
C37_Witness ==
    /\ pc["loop"] = "ticker"
    /\ iter = 1
    /\ last.err = [Apps |-> FALSE, Routes |-> TRUE, SharedDomains |-> TRUE]
    /\ Len(cache.sharedDomains) = 2
    /\ Len(cache.routes) = 3
    /\ last.viewer.v3Apps # <<>>
    /\ cache.v3Apps # last.viewer.v3Apps
    /\ cache.v3Apps = last.fetched["Apps"]

\* C38: a refresh goroutine that has ended has sent one value and has
\* raised one counter by one: the failed counter of its resource when the
\* list call failed, the success counter when it succeeded.
C38_OneSendOneCounter ==
    \A res \in ViewerResources :
        rtask["loop"][res] = "done" =>
            /\ last.sent[res] = 1
            /\ metrics[FailedUpdates[res]] - last.metrics[FailedUpdates[res]]
                  = IF last.err[res] THEN 1 ELSE 0
            /\ metrics[SuccessUpdates[res]] - last.metrics[SuccessUpdates[res]]
                  = IF last.err[res] THEN 0 ELSE 1

====
